---- MODULE Spec2Model ----
(***************************************************************************)
(* Right-sizing reconciler of multicluster-observability-addon:            *)
(* common.HandleComponentRightSizing and the resource lifecycle functions  *)
(* it drives (addon variant: ClusterManagementAddOn, AddOnTemplate,        *)
(* Placement, ConfigMap), run against a key/value model of the Kubernetes  *)
(* object store with injected store errors.                                *)
(***************************************************************************)
EXTENDS Integers, Sequences, FiniteSets, TLC

VARIABLES
    state,   \* state[comp]: the package-level ComponentState of each component
    store,   \* the object store: key -> object, or NotFound
    driven,  \* the components whose handler is triggered in this run
    call     \* record of the last handler call: inputs, state before, trace, result

vars == <<state, store, driven, call>>

-----------------------------------------------------------------------------
(* Program constants *)

DefaultRecommendationPercentage == 110
MonitoringNamespace == "openshift-monitoring"
DefaultNamespace == "open-cluster-management-global-set"
ComponentTypeNamespace == "namespace"
ComponentTypeVirtualization == "virtualization"
AddonLifecycleAnnotation == "addon.open-cluster-management.io/lifecycle"
AddonLifecycleAddonManager == "addon-manager"
SpecHashAnnotation == "observability.open-cluster-management.io/spec-hash"

Components == {ComponentTypeNamespace, ComponentTypeVirtualization}
OtherComponent(comp) == IF comp = ComponentTypeNamespace THEN ComponentTypeVirtualization ELSE ComponentTypeNamespace

(* Input domains *)

\* a ComponentType value that is neither of the two known ones
UnknownComponentType == "cluster"
\* namespaces a binding option can name
Namespaces == {DefaultNamespace, "ns-a"}
\* values of the NamespaceBinding / VirtualizationBinding options ("" = not given)
BindingOptions == {"", "ns-a"}
\* value of the ConfigNamespace option
ConfigNamespace == "open-cluster-management-observability"

-----------------------------------------------------------------------------
(* Per-component wiring: the ComponentConfig literals built by the two HandleRightSizing wrappers *)

ConfigMapName(comp) == IF comp = ComponentTypeNamespace THEN "rs-namespace-config" ELSE "rs-virt-config"
PlacementName(comp) == IF comp = ComponentTypeNamespace THEN "rs-namespace-placement" ELSE "rs-virt-placement"
PrometheusRuleName(comp) == IF comp = ComponentTypeNamespace THEN "acm-rs-namespace-prometheus-rules" ELSE "acm-rs-virt-prometheus-rules"
AddonName(comp) == IF comp = ComponentTypeNamespace THEN "observability-rightsizing-namespace" ELSE "observability-rightsizing-virtualization"
\* one template name for both components
TemplateName_Shared(comp) == "rs-template"

TemplateName(comp) == IF comp = ComponentTypeNamespace THEN "rs-namespace-template" ELSE "rs-virt-template"

NamespaceDashboardFiles == << "dashboards/dash-acm-right-sizing-namespace.yaml" >>
VirtualizationDashboardFiles ==
    << "dashboards/dash-acm-right-sizing-virtualization.yaml",
       "dashboards/dash-acm-right-sizing-virtualization-overestimation.yaml",
       "dashboards/dash-acm-right-sizing-virtualization-underestimation.yaml" >>
DashboardFiles(comp) == IF comp = ComponentTypeNamespace THEN NamespaceDashboardFiles ELSE VirtualizationDashboardFiles

\* ComponentConfig; owner names the package whose closures (default supplier, apply callback) it carries
ComponentConfig(ctype, owner) ==
    [ ComponentType    |-> ctype,
      ConfigMapName    |-> ConfigMapName(owner),
      PlacementName    |-> PlacementName(owner),
      DefaultNamespace |-> DefaultNamespace,
      AddonName        |-> AddonName(owner),
      TemplateName     |-> TemplateName(owner),
      owner            |-> owner ]

\* RightSizingOptions
RightSizingOptions(nsEnabled, nsBinding, virtEnabled, virtBinding) ==
    [ NamespaceEnabled      |-> nsEnabled,
      NamespaceBinding      |-> nsBinding,
      VirtualizationEnabled |-> virtEnabled,
      VirtualizationBinding |-> virtBinding,
      ConfigNamespace       |-> ConfigNamespace ]

\* ComponentState
ComponentState(namespace, enabled) == [ Namespace |-> namespace, Enabled |-> enabled ]

-----------------------------------------------------------------------------
(* Object store *)

NotFound == [ absent |-> TRUE ]

Key(kind, name, namespace) == [ kind |-> kind, name |-> name, ns |-> namespace ]

ConfigMapKey(comp) == Key("ConfigMap", ConfigMapName(comp), ConfigNamespace)
PlacementKey(comp, ns) == Key("Placement", PlacementName(comp), ns)
TemplateKey(comp) == Key("AddOnTemplate", TemplateName(comp), "")
AddonKey(comp) == Key("ClusterManagementAddOn", AddonName(comp), "")
\* the dashboard ConfigMap declared by an embedded dashboard file
DashboardKey(file) == Key("ConfigMap", file, ConfigNamespace)
DashboardKeys(comp) == { DashboardKey(DashboardFiles(comp)[i]) : i \in 1..Len(DashboardFiles(comp)) }

ComponentKeys(comp) ==
    { ConfigMapKey(comp), TemplateKey(comp), AddonKey(comp) }
        \cup { PlacementKey(comp, ns) : ns \in Namespaces }
        \cup DashboardKeys(comp)
AllKeys == UNION { ComponentKeys(comp) : comp \in Components }

\* a store operation site: the function issuing it, the operation, and the loop index (0 outside loops)
Site(fn, op, i) == [ fn |-> fn, op |-> op, i |-> i ]

\* cx is the client as one call sees it: the store, and the trace of operations issued so far
Log(cx, site, op, key, res) ==
    [ cx EXCEPT !.trace = Append(@, [ site |-> site, op |-> op, key |-> key, res |-> res ]) ]

\* c.Get: the object, not-found, or an injected error
Get(cx, key, site, F) ==
    IF site \in F THEN [ cx |-> Log(cx, site, "Get", key, "error"), res |-> "error", obj |-> NotFound ]
    ELSE IF cx.store[key] = NotFound
    THEN [ cx |-> Log(cx, site, "Get", key, "notfound"), res |-> "notfound", obj |-> NotFound ]
    ELSE [ cx |-> Log(cx, site, "Get", key, "ok"), res |-> "ok", obj |-> cx.store[key] ]

\* c.Create: fails on an injected error or when the object already exists
Create(cx, key, obj, site, F) ==
    IF site \in F \/ cx.store[key] # NotFound
    THEN [ cx |-> Log(cx, site, "Create", key, "error"), res |-> "error" ]
    ELSE [ cx |-> Log([ cx EXCEPT !.store[key] = obj ], site, "Create", key, "ok"), res |-> "ok" ]

\* c.Update: fails on an injected error or when the object does not exist
Update(cx, key, obj, site, F) ==
    IF site \in F \/ cx.store[key] = NotFound
    THEN [ cx |-> Log(cx, site, "Update", key, "error"), res |-> "error" ]
    ELSE [ cx |-> Log([ cx EXCEPT !.store[key] = obj ], site, "Update", key, "ok"), res |-> "ok" ]

\* c.Delete: removes the object; not-found and injected errors leave the store as it is
\* a Delete that reports a record that is not there as a failure
Delete_NotFoundIsError(cx, key, site, F) ==
    IF site \in F \/ cx.store[key] = NotFound
    THEN [ cx |-> Log(cx, site, "Delete", key, "error"), res |-> "error" ]
    ELSE [ cx |-> Log([ cx EXCEPT !.store[key] = NotFound ], site, "Delete", key, "ok"), res |-> "ok" ]

Delete(cx, key, site, F) ==
    IF site \in F THEN [ cx |-> Log(cx, site, "Delete", key, "error"), res |-> "error" ]
    ELSE IF cx.store[key] = NotFound
    THEN [ cx |-> Log(cx, site, "Delete", key, "notfound"), res |-> "notfound" ]
    ELSE [ cx |-> Log([ cx EXCEPT !.store[key] = NotFound ], site, "Delete", key, "ok"), res |-> "ok" ]

-----------------------------------------------------------------------------
(* Configuration payload *)

\* RSPrometheusRuleConfig
RSPrometheusRuleConfig(inclusion, exclusion, labelFilters, percentage) ==
    [ NamespaceFilterCriteria  |-> [ InclusionCriteria |-> inclusion, ExclusionCriteria |-> exclusion ],
      LabelFilterCriteria      |-> labelFilters,
      RecommendationPercentage |-> percentage ]

\* GetDefaultRSPrometheusRuleConfig
GetDefaultRSPrometheusRuleConfig ==
    RSPrometheusRuleConfig(<< >>, << "openshift.*" >>, << >>, DefaultRecommendationPercentage)

\* the placement produced by GetDefaultRSPlacement
DefaultRSPlacement == [ Spec |-> [ ClusterSets |-> << "global" >> ] ]

\* YAML texts that occur as values of the configuration record
YamlDefaultRuleConfig ==
    "namespaceFilterCriteria:\n  inclusionCriteria: []\n  exclusionCriteria:\n  - openshift.*\nlabelFilterCriteria: []\nrecommendationPercentage: 110\n"
YamlEditedRuleConfig == "recommendationPercentage: 120"
YamlMalformed == "recommendationPercentage: ["
YamlDefaultPlacement == "spec:\n  clusterSets:\n  - global\n"

\* FormatYAML: yaml.Marshal of the two values the default supplier formats ("" on a marshal error)
FormatYAML(data) ==
    CASE data = GetDefaultRSPrometheusRuleConfig -> YamlDefaultRuleConfig
      [] data = DefaultRSPlacement -> YamlDefaultPlacement
      [] OTHER -> ""

\* yaml.Unmarshal of a prometheusRuleConfig text into RSPrometheusRuleConfig
UnmarshalRuleConfig(text) ==
    CASE text = YamlDefaultRuleConfig ->
            [ err |-> FALSE, val |-> RSPrometheusRuleConfig(<< >>, << "openshift.*" >>, << >>, 110) ]
      [] text = YamlEditedRuleConfig ->
            [ err |-> FALSE, val |-> RSPrometheusRuleConfig(<< >>, << >>, << >>, 120) ]
      [] text = "" ->
            [ err |-> FALSE, val |-> RSPrometheusRuleConfig(<< >>, << >>, << >>, 0) ]
      [] OTHER ->
            [ err |-> TRUE, val |-> RSPrometheusRuleConfig(<< >>, << >>, << >>, 0) ]

\* yaml.Unmarshal of a placementConfiguration text into a Placement
UnmarshalPlacement(text) ==
    CASE text = YamlDefaultPlacement -> [ err |-> FALSE, val |-> DefaultRSPlacement ]
      [] text = "" -> [ err |-> FALSE, val |-> [ Spec |-> [ ClusterSets |-> << >> ] ] ]
      [] OTHER -> [ err |-> TRUE, val |-> [ Spec |-> [ ClusterSets |-> << >> ] ] ]

\* GetDefaultRSNamespaceConfig / GetDefaultRSVirtualizationConfig: the default-config supplier
GetDefaultConfigFunc(owner) ==
    [ prometheusRuleConfig   |-> FormatYAML(GetDefaultRSPrometheusRuleConfig),
      placementConfiguration |-> FormatYAML(DefaultRSPlacement) ]

\* a ConfigMap object with the given Data
ConfigMap(data) == [ Data |-> data ]

\* Data an operator may write into the configuration record
EditedConfigData ==
    { [ prometheusRuleConfig |-> YamlEditedRuleConfig, placementConfiguration |-> YamlDefaultPlacement ],
      [ prometheusRuleConfig |-> YamlMalformed,        placementConfiguration |-> YamlDefaultPlacement ] }

\* GetRSConfigData: decode the two sections of the configuration record
GetRSConfigData(cm) ==
    LET rule == UnmarshalRuleConfig(cm.Data.prometheusRuleConfig)
        placement == UnmarshalPlacement(cm.Data.placementConfiguration)
    IN  [ err |-> rule.err \/ placement.err,
          val |-> [ PrometheusRuleConfig |-> rule.val, PlacementConfiguration |-> placement.val ] ]

\* EnsureRSConfigMapExists: create the configuration record from the defaults when it is absent
EnsureRSConfigMapExists(cx, name, namespace, owner, F) ==
    LET key == Key("ConfigMap", name, namespace)
        Created(c) == [ cx |-> c.cx, err |-> c.res # "ok" ]
        Fetched(g) ==
            IF g.res = "ok" THEN [ cx |-> g.cx, err |-> FALSE ]
            ELSE IF g.res = "error" THEN [ cx |-> g.cx, err |-> TRUE ]
            ELSE Created(Create(g.cx, key, ConfigMap(GetDefaultConfigFunc(owner)),
                                Site("EnsureRSConfigMapExists", "Write", 0), F))
    IN  Fetched(Get(cx, key, Site("EnsureRSConfigMapExists", "Get", 0), F))

-----------------------------------------------------------------------------
(* Rule generation (the part the reconciler depends on) *)

RECURSIVE Join(_, _)
\* strings.Join
Join(elems, sep) ==
    IF Len(elems) = 0 THEN ""
    ELSE IF Len(elems) = 1 THEN elems[1]
    ELSE elems[1] \o sep \o Join(Tail(elems), sep)

RECURSIVE Deduplicated(_)
\* the entries with every repetition of an earlier entry dropped
Deduplicated(elems) ==
    IF Len(elems) = 0 THEN << >>
    ELSE LET front == Deduplicated(SubSeq(elems, 1, Len(elems) - 1))
             last == elems[Len(elems)]
         IN  IF \E i \in 1..Len(front) : front[i] = last THEN front ELSE Append(front, last)

\* BuildNamespaceFilter that joins each distinct entry once
BuildNamespaceFilter_Deduplicates(nsConfig) ==
    LET ns == nsConfig.NamespaceFilterCriteria
    IN  IF Len(ns.InclusionCriteria) > 0 /\ Len(ns.ExclusionCriteria) > 0
        THEN [ err |-> TRUE, val |-> "" ]
        ELSE IF Len(ns.InclusionCriteria) > 0
        THEN [ err |-> FALSE,
               val |-> "namespace=~\"" \o Join(Deduplicated(ns.InclusionCriteria), "|") \o "\"" ]
        ELSE IF Len(ns.ExclusionCriteria) > 0
        THEN [ err |-> FALSE,
               val |-> "namespace!~\"" \o Join(Deduplicated(ns.ExclusionCriteria), "|") \o "\"" ]
        ELSE [ err |-> FALSE, val |-> "namespace!=\"\"" ]

\* BuildNamespaceFilter
BuildNamespaceFilter(nsConfig) ==
    LET ns == nsConfig.NamespaceFilterCriteria
    IN  IF Len(ns.InclusionCriteria) > 0 /\ Len(ns.ExclusionCriteria) > 0
        THEN [ err |-> TRUE, val |-> "" ]
        ELSE IF Len(ns.InclusionCriteria) > 0
        THEN [ err |-> FALSE, val |-> "namespace=~\"" \o Join(ns.InclusionCriteria, "|") \o "\"" ]
        ELSE IF Len(ns.ExclusionCriteria) > 0
        THEN [ err |-> FALSE, val |-> "namespace!~\"" \o Join(ns.ExclusionCriteria, "|") \o "\"" ]
        ELSE [ err |-> FALSE, val |-> "namespace!=\"\"" ]

RECURSIVE BuildLabelJoin_AnyLabel(_)
\* BuildLabelJoin that reads the criteria of every entry, whatever its label name
BuildLabelJoin_AnyLabel(labelFilters) ==
    IF Len(labelFilters) = 0 THEN [ err |-> FALSE, val |-> "" ]
    ELSE LET l == Head(labelFilters)
         IN  IF Len(l.InclusionCriteria) > 0 /\ Len(l.ExclusionCriteria) > 0
             THEN [ err |-> TRUE, val |-> "" ]
             ELSE IF Len(l.InclusionCriteria) > 0
             THEN [ err |-> FALSE,
                    val |-> "* on (namespace) group_left() (kube_namespace_labels{label_env=~\""
                            \o Join(l.InclusionCriteria, "|")
                            \o "\"} or kube_namespace_labels{label_env=\"\"})" ]
             ELSE IF Len(l.ExclusionCriteria) > 0
             THEN [ err |-> FALSE,
                    val |-> "* on (namespace) group_left() (kube_namespace_labels{label_env!~\""
                            \o Join(l.ExclusionCriteria, "|")
                            \o "\"} or kube_namespace_labels{label_env=\"\"})" ]
             ELSE BuildLabelJoin_AnyLabel(Tail(labelFilters))

RECURSIVE BuildLabelJoin_NoFallback(_)
\* BuildLabelJoin whose clause has no alternative for namespaces without the label
BuildLabelJoin_NoFallback(labelFilters) ==
    IF Len(labelFilters) = 0 THEN [ err |-> FALSE, val |-> "" ]
    ELSE LET l == Head(labelFilters)
         IN  IF l.LabelName # "label_env" THEN BuildLabelJoin_NoFallback(Tail(labelFilters))
             ELSE IF Len(l.InclusionCriteria) > 0 /\ Len(l.ExclusionCriteria) > 0
             THEN [ err |-> TRUE, val |-> "" ]
             ELSE IF Len(l.InclusionCriteria) > 0
             THEN [ err |-> FALSE,
                    val |-> "* on (namespace) group_left() (kube_namespace_labels{label_env=~\""
                            \o Join(l.InclusionCriteria, "|") \o "\"})" ]
             ELSE IF Len(l.ExclusionCriteria) > 0
             THEN [ err |-> FALSE,
                    val |-> "* on (namespace) group_left() (kube_namespace_labels{label_env!~\""
                            \o Join(l.ExclusionCriteria, "|") \o "\"})" ]
             ELSE BuildLabelJoin_NoFallback(Tail(labelFilters))

RECURSIVE BuildLabelJoin(_)
\* BuildLabelJoin
BuildLabelJoin(labelFilters) ==
    IF Len(labelFilters) = 0 THEN [ err |-> FALSE, val |-> "" ]
    ELSE LET l == Head(labelFilters)
         IN  IF l.LabelName # "label_env" THEN BuildLabelJoin(Tail(labelFilters))
             ELSE IF Len(l.InclusionCriteria) > 0 /\ Len(l.ExclusionCriteria) > 0
             THEN [ err |-> TRUE, val |-> "" ]
             ELSE IF Len(l.InclusionCriteria) > 0
             THEN [ err |-> FALSE,
                    val |-> "* on (namespace) group_left() (kube_namespace_labels{label_env=~\""
                            \o Join(l.InclusionCriteria, "|")
                            \o "\"} or kube_namespace_labels{label_env=\"\"})" ]
             ELSE IF Len(l.ExclusionCriteria) > 0
             THEN [ err |-> FALSE,
                    val |-> "* on (namespace) group_left() (kube_namespace_labels{label_env!~\""
                            \o Join(l.ExclusionCriteria, "|")
                            \o "\"} or kube_namespace_labels{label_env=\"\"})" ]
             ELSE BuildLabelJoin(Tail(labelFilters))

\* the zero PrometheusRule returned next to an error
EmptyPrometheusRule == [ Name |-> "", Namespace |-> "", NsFilter |-> "", LabelJoin |-> "", Percentage |-> 0 ]

\* GeneratePrometheusRule that does not look at the label join's error
GeneratePrometheusRule_IgnoresLabelError(owner, configData) ==
    LET Built(nsFilter, labelJoin) ==
            IF nsFilter.err THEN [ err |-> TRUE, val |-> EmptyPrometheusRule ]
            ELSE [ err |-> FALSE,
                   val |-> [ Name       |-> PrometheusRuleName(owner),
                             Namespace  |-> MonitoringNamespace,
                             NsFilter   |-> nsFilter.val,
                             LabelJoin  |-> labelJoin.val,
                             Percentage |-> configData.PrometheusRuleConfig.RecommendationPercentage ] ]
    IN  Built(BuildNamespaceFilter(configData.PrometheusRuleConfig),
              BuildLabelJoin(configData.PrometheusRuleConfig.LabelFilterCriteria))

\* GeneratePrometheusRule: the document is kept as the values its groups are built from
GeneratePrometheusRule(owner, configData) ==
    LET Built(nsFilter, labelJoin) ==
            IF nsFilter.err THEN [ err |-> TRUE, val |-> EmptyPrometheusRule ]
            ELSE IF labelJoin.err THEN [ err |-> TRUE, val |-> EmptyPrometheusRule ]
            ELSE [ err |-> FALSE,
                   val |-> [ Name       |-> PrometheusRuleName(owner),
                             Namespace  |-> MonitoringNamespace,
                             NsFilter   |-> nsFilter.val,
                             LabelJoin  |-> labelJoin.val,
                             Percentage |-> configData.PrometheusRuleConfig.RecommendationPercentage ] ]
    IN  Built(BuildNamespaceFilter(configData.PrometheusRuleConfig),
              BuildLabelJoin(configData.PrometheusRuleConfig.LabelFilterCriteria))

-----------------------------------------------------------------------------
(* Resource lifecycle: addon.go *)

\* json.Marshal of the PrometheusRule embedded in the template
MarshalPrometheusRule(rule) ==
    "{\"name\":\"" \o rule.Name \o "\",\"namespace\":\"" \o rule.Namespace
        \o "\",\"filter\":\"" \o rule.NsFilter \o "\",\"join\":\"" \o rule.LabelJoin
        \o "\",\"percentage\":" \o ToString(rule.Percentage) \o "}"

\* calculateSpecHash: SHA256 taken as a collision-free digest of the serialized document
calculateSpecHash(data) == "sha256:" \o data

\* RightSizingAddonConfig
RightSizingAddonConfig(addonName, templateName, placementName, placementNamespace, prometheusRule, placementSpec) ==
    [ AddonName          |-> addonName,
      TemplateName       |-> templateName,
      PlacementName      |-> placementName,
      PlacementNamespace |-> placementNamespace,
      PrometheusRule     |-> prometheusRule,
      PlacementSpec      |-> placementSpec ]

\* a createOrUpdateAddOnTemplate that leaves the spec-hash annotation of an existing template as it is
createOrUpdateAddOnTemplate_StaleHash(cx, config, F) ==
    LET key == Key("AddOnTemplate", config.TemplateName, "")
        Template(promRuleJSON) ==
            [ Annotations |-> [ SpecHash |-> calculateSpecHash(promRuleJSON) ],
              Spec        |-> [ AddonName |-> config.AddonName, Manifest |-> promRuleJSON ] ]
        Written(w) == [ cx |-> w.cx, err |-> w.res # "ok" ]
        Fetched(g, template) ==
            IF g.res = "error" THEN [ cx |-> g.cx, err |-> TRUE ]
            ELSE IF g.res = "ok"
            THEN Written(Update(g.cx, key, [ template EXCEPT !.Annotations = g.obj.Annotations ],
                                Site("createOrUpdateAddOnTemplate", "Write", 0), F))
            ELSE Written(Create(g.cx, key, template, Site("createOrUpdateAddOnTemplate", "Write", 0), F))
    IN  Fetched(Get(cx, key, Site("createOrUpdateAddOnTemplate", "Get", 0), F),
                Template(MarshalPrometheusRule(config.PrometheusRule)))

\* createOrUpdateAddOnTemplate
createOrUpdateAddOnTemplate(cx, config, F) ==
    LET key == Key("AddOnTemplate", config.TemplateName, "")
        Template(promRuleJSON) ==
            [ Annotations |-> [ SpecHash |-> calculateSpecHash(promRuleJSON) ],
              Spec        |-> [ AddonName |-> config.AddonName, Manifest |-> promRuleJSON ] ]
        Written(w) == [ cx |-> w.cx, err |-> w.res # "ok" ]
        Fetched(g, template) ==
            IF g.res = "error" THEN [ cx |-> g.cx, err |-> TRUE ]
            ELSE IF g.res = "ok"
            THEN Written(Update(g.cx, key, template, Site("createOrUpdateAddOnTemplate", "Write", 0), F))
            ELSE Written(Create(g.cx, key, template, Site("createOrUpdateAddOnTemplate", "Write", 0), F))
    IN  Fetched(Get(cx, key, Site("createOrUpdateAddOnTemplate", "Get", 0), F),
                Template(MarshalPrometheusRule(config.PrometheusRule)))

\* a createOrUpdatePlacement that creates the Placement whether the fetch found it or not
createOrUpdatePlacement_AlwaysCreates(cx, config, F) ==
    LET key == Key("Placement", config.PlacementName, config.PlacementNamespace)
        placement == [ Spec |-> config.PlacementSpec ]
        Written(w) == [ cx |-> w.cx, err |-> w.res # "ok" ]
        Fetched(g) ==
            IF g.res = "error" THEN [ cx |-> g.cx, err |-> TRUE ]
            ELSE Written(Create(g.cx, key, placement, Site("createOrUpdatePlacement", "Write", 0), F))
    IN  Fetched(Get(cx, key, Site("createOrUpdatePlacement", "Get", 0), F))

\* createOrUpdatePlacement
createOrUpdatePlacement(cx, config, F) ==
    LET key == Key("Placement", config.PlacementName, config.PlacementNamespace)
        placement == [ Spec |-> config.PlacementSpec ]
        Written(w) == [ cx |-> w.cx, err |-> w.res # "ok" ]
        Fetched(g) ==
            IF g.res = "error" THEN [ cx |-> g.cx, err |-> TRUE ]
            ELSE IF g.res = "ok"
            THEN Written(Update(g.cx, key, placement, Site("createOrUpdatePlacement", "Write", 0), F))
            ELSE Written(Create(g.cx, key, placement, Site("createOrUpdatePlacement", "Write", 0), F))
    IN  Fetched(Get(cx, key, Site("createOrUpdatePlacement", "Get", 0), F))

\* createOrUpdateClusterManagementAddOn
createOrUpdateClusterManagementAddOn(cx, config, F) ==
    LET key == Key("ClusterManagementAddOn", config.AddonName, "")
        cmao == [ Annotations |-> [ Lifecycle |-> AddonLifecycleAddonManager ],
                  Spec |-> [ DefaultConfig |-> config.TemplateName,
                             PlacementRef  |-> [ Name      |-> config.PlacementName,
                                                 Namespace |-> config.PlacementNamespace ] ] ]
        Written(w) == [ cx |-> w.cx, err |-> w.res # "ok" ]
        Fetched(g) ==
            IF g.res = "error" THEN [ cx |-> g.cx, err |-> TRUE ]
            ELSE IF g.res = "ok"
            THEN Written(Update(g.cx, key, cmao, Site("createOrUpdateClusterManagementAddOn", "Write", 0), F))
            ELSE Written(Create(g.cx, key, cmao, Site("createOrUpdateClusterManagementAddOn", "Write", 0), F))
    IN  Fetched(Get(cx, key, Site("createOrUpdateClusterManagementAddOn", "Get", 0), F))

\* CreateOrUpdateRightSizingAddon: template, then placement, then addon; the first error stops it
CreateOrUpdateRightSizingAddon(cx, config, F) ==
    LET PlacementDone(p) == IF p.err THEN p ELSE createOrUpdateClusterManagementAddOn(p.cx, config, F)
        TemplateDone(t) == IF t.err THEN t ELSE PlacementDone(createOrUpdatePlacement(t.cx, config, F))
    IN  TemplateDone(createOrUpdateAddOnTemplate(cx, config, F))

\* a CleanupRightSizingAddon that forgets the placement
CleanupRightSizingAddon_SkipsPlacement(cx, addonName, templateName, placementName, placementNamespace, F) ==
    LET a == Delete(cx, Key("ClusterManagementAddOn", addonName, ""),
                    Site("CleanupRightSizingAddon", "DeleteAddon", 0), F)
        t == Delete(a.cx, Key("AddOnTemplate", templateName, ""),
                    Site("CleanupRightSizingAddon", "DeleteTemplate", 0), F)
    IN  t.cx

\* a CleanupRightSizingAddon that gives up at the first delete that fails
CleanupRightSizingAddon_StopsAtError(cx, addonName, templateName, placementName, placementNamespace, F) ==
    LET TemplateDeleted(t) ==
            IF t.res = "error" THEN t.cx
            ELSE Delete(t.cx, Key("Placement", placementName, placementNamespace),
                        Site("CleanupRightSizingAddon", "DeletePlacement", 0), F).cx
        AddonDeleted(a) ==
            IF a.res = "error" THEN a.cx
            ELSE TemplateDeleted(Delete(a.cx, Key("AddOnTemplate", templateName, ""),
                                        Site("CleanupRightSizingAddon", "DeleteTemplate", 0), F))
    IN  AddonDeleted(Delete(cx, Key("ClusterManagementAddOn", addonName, ""),
                            Site("CleanupRightSizingAddon", "DeleteAddon", 0), F))

\* a CleanupRightSizingAddon that deletes the Placement before the addon and its template
CleanupRightSizingAddon_PlacementFirst(cx, addonName, templateName, placementName, placementNamespace, F) ==
    LET p == Delete(cx, Key("Placement", placementName, placementNamespace),
                    Site("CleanupRightSizingAddon", "DeletePlacement", 0), F)
        a == Delete(p.cx, Key("ClusterManagementAddOn", addonName, ""),
                    Site("CleanupRightSizingAddon", "DeleteAddon", 0), F)
        t == Delete(a.cx, Key("AddOnTemplate", templateName, ""),
                    Site("CleanupRightSizingAddon", "DeleteTemplate", 0), F)
    IN  t.cx

\* CleanupRightSizingAddon: delete addon, template and placement; errors are logged only
CleanupRightSizingAddon(cx, addonName, templateName, placementName, placementNamespace, F) ==
    LET a == Delete(cx, Key("ClusterManagementAddOn", addonName, ""),
                    Site("CleanupRightSizingAddon", "DeleteAddon", 0), F)
        t == Delete(a.cx, Key("AddOnTemplate", templateName, ""),
                    Site("CleanupRightSizingAddon", "DeleteTemplate", 0), F)
        p == Delete(t.cx, Key("Placement", placementName, placementNamespace),
                    Site("CleanupRightSizingAddon", "DeletePlacement", 0), F)
    IN  p.cx

-----------------------------------------------------------------------------
(* Dashboards: dashboards.go *)

\* the ConfigMap unmarshalled from an embedded dashboard file, with the Grafana label set
DashboardConfigMap(file) ==
    [ Data |-> [ dashboard |-> file ], Labels |-> [ grafanaCustomDashboard |-> "true" ] ]

\* createOrUpdateDashboardFromFile, for the i-th file of the list
createOrUpdateDashboardFromFile(cx, file, i, F) ==
    LET key == DashboardKey(file)
        Written(w) == [ cx |-> w.cx, err |-> w.res # "ok" ]
        Fetched(g) ==
            IF g.res = "error" THEN [ cx |-> g.cx, err |-> TRUE ]
            ELSE IF g.res = "notfound"
            THEN Written(Create(g.cx, key, DashboardConfigMap(file), Site("createOrUpdateDashboardFromFile", "Write", i), F))
            ELSE Written(Update(g.cx, key, DashboardConfigMap(file), Site("createOrUpdateDashboardFromFile", "Write", i), F))
    IN  Fetched(Get(cx, key, Site("createOrUpdateDashboardFromFile", "Get", i), F))

RECURSIVE CreateOrUpdateDashboardsFrom(_, _, _, _)
\* the loop of CreateOrUpdateDashboards from index i on
CreateOrUpdateDashboardsFrom(cx, dashboardFiles, i, F) ==
    LET Done(r) == IF r.err THEN r ELSE CreateOrUpdateDashboardsFrom(r.cx, dashboardFiles, i + 1, F)
    IN  IF i > Len(dashboardFiles) THEN [ cx |-> cx, err |-> FALSE ]
        ELSE Done(createOrUpdateDashboardFromFile(cx, dashboardFiles[i], i, F))

\* CreateOrUpdateDashboards
CreateOrUpdateDashboards(cx, dashboardFiles, F) == CreateOrUpdateDashboardsFrom(cx, dashboardFiles, 1, F)

-----------------------------------------------------------------------------
(* The apply-changes callbacks *)

\* ApplyRSNamespaceConfigMapChanges
ApplyRSNamespaceConfigMapChanges(cx, configData, namespace, F) ==
    LET AddonConfig(prometheusRule) ==
            RightSizingAddonConfig(AddonName(ComponentTypeNamespace), TemplateName(ComponentTypeNamespace),
                                   PlacementName(ComponentTypeNamespace), namespace,
                                   prometheusRule, configData.PlacementConfiguration.Spec)
        AddonDone(a) == IF a.err THEN a ELSE CreateOrUpdateDashboards(a.cx, NamespaceDashboardFiles, F)
        Generated(prometheusRule) ==
            IF prometheusRule.err THEN [ cx |-> cx, err |-> TRUE ]
            ELSE AddonDone(CreateOrUpdateRightSizingAddon(cx, AddonConfig(prometheusRule.val), F))
    IN  Generated(GeneratePrometheusRule(ComponentTypeNamespace, configData))

\* ApplyRSVirtualizationConfigMapChanges
ApplyRSVirtualizationConfigMapChanges(cx, configData, namespace, F) ==
    LET AddonConfig(prometheusRule) ==
            RightSizingAddonConfig(AddonName(ComponentTypeVirtualization), TemplateName(ComponentTypeVirtualization),
                                   PlacementName(ComponentTypeVirtualization), namespace,
                                   prometheusRule, configData.PlacementConfiguration.Spec)
        AddonDone(a) == IF a.err THEN a ELSE CreateOrUpdateDashboards(a.cx, VirtualizationDashboardFiles, F)
        Generated(prometheusRule) ==
            IF prometheusRule.err THEN [ cx |-> cx, err |-> TRUE ]
            ELSE AddonDone(CreateOrUpdateRightSizingAddon(cx, AddonConfig(prometheusRule.val), F))
    IN  Generated(GeneratePrometheusRule(ComponentTypeVirtualization, configData))

\* ApplyChangesFunc: the closure of the owning package's HandleRightSizing; it reads the
\* binding from that package's ComponentState when it is called
ApplyChangesFunc(cx, owner, configData, componentState, F) ==
    LET namespace == componentState.Namespace
        called == Log(cx, Site("ApplyChangesFunc", "Call", 0), "ApplyChangesFunc",
                      [ configData |-> configData, namespace |-> namespace ], "called")
    IN  IF owner = ComponentTypeNamespace
        THEN ApplyRSNamespaceConfigMapChanges(called, configData, namespace, F)
        ELSE ApplyRSVirtualizationConfigMapChanges(called, configData, namespace, F)

-----------------------------------------------------------------------------
(* The reconciliation state machine: component.go *)

\* a CleanupComponentResources that ignores bindingUpdated and always deletes the ConfigMap
CleanupComponentResources_AlwaysDeletesConfigMap(cx, componentConfig, namespace, configNamespace, bindingUpdated, F) ==
    LET AddonCleaned(a) ==
            Delete(a, Key("ConfigMap", componentConfig.ConfigMapName, configNamespace),
                   Site("CleanupComponentResources", "DeleteConfigMap", 0), F).cx
    IN  AddonCleaned(CleanupRightSizingAddon(cx, componentConfig.AddonName, componentConfig.TemplateName,
                                             componentConfig.PlacementName, namespace, F))

\* a CleanupComponentResources that never deletes the ConfigMap
CleanupComponentResources_KeepsConfigMap(cx, componentConfig, namespace, configNamespace, bindingUpdated, F) ==
    CleanupRightSizingAddon(cx, componentConfig.AddonName, componentConfig.TemplateName,
                            componentConfig.PlacementName, namespace, F)

\* CleanupComponentResources: addon resources, and the ConfigMap unless this is a binding update
CleanupComponentResources(cx, componentConfig, namespace, configNamespace, bindingUpdated, F) ==
    LET AddonCleaned(a) ==
            IF ~bindingUpdated
            THEN Delete(a, Key("ConfigMap", componentConfig.ConfigMapName, configNamespace),
                        Site("CleanupComponentResources", "DeleteConfigMap", 0), F).cx
            ELSE a
    IN  AddonCleaned(CleanupRightSizingAddon(cx, componentConfig.AddonName, componentConfig.TemplateName,
                                             componentConfig.PlacementName, namespace, F))

\* a HandleEnabled whose callback still sees the namespace recorded before the call
HandleEnabled_AppliesBeforeRebinding(cx, opts, componentConfig, st, newBinding, F) ==
    LET namespaceBindingUpdated == st.Namespace # newBinding /\ st.Enabled
        existingNamespace == st.Namespace
        newState == ComponentState(newBinding, TRUE)
        Applied(a) == [ cx |-> a.cx, state |-> newState, err |-> a.err ]
        Decoded(c, configData) ==
            IF configData.err THEN [ cx |-> c, state |-> newState, err |-> TRUE ]
            ELSE Applied(ApplyChangesFunc(c, componentConfig.owner, configData.val, st, F))
        Fetched(g) ==
            IF g.res # "ok" THEN [ cx |-> g.cx, state |-> newState, err |-> TRUE ]
            ELSE Decoded(g.cx, GetRSConfigData(g.obj))
        CleanedUp(c) ==
            Fetched(Get(c, Key("ConfigMap", componentConfig.ConfigMapName, opts.ConfigNamespace),
                        Site("HandleComponentRightSizing", "Get", 0), F))
        Ensured(e) ==
            IF e.err THEN [ cx |-> e.cx, state |-> newState, err |-> TRUE ]
            ELSE IF namespaceBindingUpdated
            THEN CleanedUp(CleanupComponentResources(e.cx, componentConfig, existingNamespace,
                                                     opts.ConfigNamespace, TRUE, F))
            ELSE CleanedUp(e.cx)
    IN  Ensured(EnsureRSConfigMapExists(cx, componentConfig.ConfigMapName, opts.ConfigNamespace,
                                        componentConfig.owner, F))

\* a HandleEnabled that applies the decoding of the defaults instead of the record it fetched
HandleEnabled_AppliesDefaults(cx, opts, componentConfig, st, newBinding, F) ==
    LET namespaceBindingUpdated == st.Namespace # newBinding /\ st.Enabled
        existingNamespace == st.Namespace
        newState == ComponentState(newBinding, TRUE)
        Applied(a) == [ cx |-> a.cx, state |-> newState, err |-> a.err ]
        Decoded(c, configData) ==
            IF configData.err THEN [ cx |-> c, state |-> newState, err |-> TRUE ]
            ELSE Applied(ApplyChangesFunc(c, componentConfig.owner, configData.val, newState, F))
        Fetched(g) ==
            IF g.res # "ok" THEN [ cx |-> g.cx, state |-> newState, err |-> TRUE ]
            ELSE Decoded(g.cx, GetRSConfigData(ConfigMap(GetDefaultConfigFunc(componentConfig.owner))))
        CleanedUp(c) ==
            Fetched(Get(c, Key("ConfigMap", componentConfig.ConfigMapName, opts.ConfigNamespace),
                        Site("HandleComponentRightSizing", "Get", 0), F))
        Ensured(e) ==
            IF e.err THEN [ cx |-> e.cx, state |-> newState, err |-> TRUE ]
            ELSE IF namespaceBindingUpdated
            THEN CleanedUp(CleanupComponentResources(e.cx, componentConfig, existingNamespace,
                                                     opts.ConfigNamespace, TRUE, F))
            ELSE CleanedUp(e.cx)
    IN  Ensured(EnsureRSConfigMapExists(cx, componentConfig.ConfigMapName, opts.ConfigNamespace,
                                        componentConfig.owner, F))

\* a HandleEnabled that goes on after a failed ensure step
HandleEnabled_IgnoresEnsureError(cx, opts, componentConfig, st, newBinding, F) ==
    LET namespaceBindingUpdated == st.Namespace # newBinding /\ st.Enabled
        existingNamespace == st.Namespace
        newState == ComponentState(newBinding, TRUE)
        Applied(a) == [ cx |-> a.cx, state |-> newState, err |-> a.err ]
        Decoded(c, configData) ==
            IF configData.err THEN [ cx |-> c, state |-> newState, err |-> TRUE ]
            ELSE Applied(ApplyChangesFunc(c, componentConfig.owner, configData.val, newState, F))
        Fetched(g) ==
            IF g.res # "ok" THEN [ cx |-> g.cx, state |-> newState, err |-> TRUE ]
            ELSE Decoded(g.cx, GetRSConfigData(g.obj))
        CleanedUp(c) ==
            Fetched(Get(c, Key("ConfigMap", componentConfig.ConfigMapName, opts.ConfigNamespace),
                        Site("HandleComponentRightSizing", "Get", 0), F))
        Ensured(e) ==
            IF namespaceBindingUpdated
            THEN CleanedUp(CleanupComponentResources(e.cx, componentConfig, existingNamespace,
                                                     opts.ConfigNamespace, TRUE, F))
            ELSE CleanedUp(e.cx)
    IN  Ensured(EnsureRSConfigMapExists(cx, componentConfig.ConfigMapName, opts.ConfigNamespace,
                                        componentConfig.owner, F))

\* a HandleEnabled that runs the rebinding cleanup on every call
HandleEnabled_AlwaysCleansUp(cx, opts, componentConfig, st, newBinding, F) ==
    LET existingNamespace == st.Namespace
        newState == ComponentState(newBinding, TRUE)
        Applied(a) == [ cx |-> a.cx, state |-> newState, err |-> a.err ]
        Decoded(c, configData) ==
            IF configData.err THEN [ cx |-> c, state |-> newState, err |-> TRUE ]
            ELSE Applied(ApplyChangesFunc(c, componentConfig.owner, configData.val, newState, F))
        Fetched(g) ==
            IF g.res # "ok" THEN [ cx |-> g.cx, state |-> newState, err |-> TRUE ]
            ELSE Decoded(g.cx, GetRSConfigData(g.obj))
        CleanedUp(c) ==
            Fetched(Get(c, Key("ConfigMap", componentConfig.ConfigMapName, opts.ConfigNamespace),
                        Site("HandleComponentRightSizing", "Get", 0), F))
        Ensured(e) ==
            IF e.err THEN [ cx |-> e.cx, state |-> newState, err |-> TRUE ]
            ELSE CleanedUp(CleanupComponentResources(e.cx, componentConfig, existingNamespace,
                                                     opts.ConfigNamespace, TRUE, F))
    IN  Ensured(EnsureRSConfigMapExists(cx, componentConfig.ConfigMapName, opts.ConfigNamespace,
                                        componentConfig.owner, F))

\* a HandleEnabled that fetches the configuration record a second time when the fetch fails
HandleEnabled_RetriesFetch(cx, opts, componentConfig, st, newBinding, F) ==
    LET namespaceBindingUpdated == st.Namespace # newBinding /\ st.Enabled
        existingNamespace == st.Namespace
        newState == ComponentState(newBinding, TRUE)
        Applied(a) == [ cx |-> a.cx, state |-> newState, err |-> a.err ]
        Decoded(c, configData) ==
            IF configData.err THEN [ cx |-> c, state |-> newState, err |-> TRUE ]
            ELSE Applied(ApplyChangesFunc(c, componentConfig.owner, configData.val, newState, F))
        Refetched(g) ==
            IF g.res # "ok" THEN [ cx |-> g.cx, state |-> newState, err |-> TRUE ]
            ELSE Decoded(g.cx, GetRSConfigData(g.obj))
        Fetched(g) ==
            IF g.res # "ok"
            THEN Refetched(Get(g.cx, Key("ConfigMap", componentConfig.ConfigMapName, opts.ConfigNamespace),
                               Site("HandleComponentRightSizing", "Get", 0), F))
            ELSE Decoded(g.cx, GetRSConfigData(g.obj))
        CleanedUp(c) ==
            Fetched(Get(c, Key("ConfigMap", componentConfig.ConfigMapName, opts.ConfigNamespace),
                        Site("HandleComponentRightSizing", "Get", 0), F))
        Ensured(e) ==
            IF e.err THEN [ cx |-> e.cx, state |-> newState, err |-> TRUE ]
            ELSE IF namespaceBindingUpdated
            THEN CleanedUp(CleanupComponentResources(e.cx, componentConfig, existingNamespace,
                                                     opts.ConfigNamespace, TRUE, F))
            ELSE CleanedUp(e.cx)
    IN  Ensured(EnsureRSConfigMapExists(cx, componentConfig.ConfigMapName, opts.ConfigNamespace,
                                        componentConfig.owner, F))

\* a HandleEnabled that does nothing when the component is already enabled in the same namespace
HandleEnabled_SkipsWhenAlreadyEnabled(cx, opts, componentConfig, st, newBinding, F) ==
    LET namespaceBindingUpdated == st.Namespace # newBinding /\ st.Enabled
        existingNamespace == st.Namespace
        newState == ComponentState(newBinding, TRUE)
        Applied(a) == [ cx |-> a.cx, state |-> newState, err |-> a.err ]
        Decoded(c, configData) ==
            IF configData.err THEN [ cx |-> c, state |-> newState, err |-> TRUE ]
            ELSE Applied(ApplyChangesFunc(c, componentConfig.owner, configData.val, newState, F))
        Fetched(g) ==
            IF g.res # "ok" THEN [ cx |-> g.cx, state |-> newState, err |-> TRUE ]
            ELSE Decoded(g.cx, GetRSConfigData(g.obj))
        CleanedUp(c) ==
            Fetched(Get(c, Key("ConfigMap", componentConfig.ConfigMapName, opts.ConfigNamespace),
                        Site("HandleComponentRightSizing", "Get", 0), F))
        Ensured(e) ==
            IF e.err THEN [ cx |-> e.cx, state |-> newState, err |-> TRUE ]
            ELSE IF namespaceBindingUpdated
            THEN CleanedUp(CleanupComponentResources(e.cx, componentConfig, existingNamespace,
                                                     opts.ConfigNamespace, TRUE, F))
            ELSE CleanedUp(e.cx)
    IN  IF st.Enabled /\ st.Namespace = newBinding
        THEN [ cx |-> cx, state |-> newState, err |-> FALSE ]
        ELSE Ensured(EnsureRSConfigMapExists(cx, componentConfig.ConfigMapName, opts.ConfigNamespace,
                                             componentConfig.owner, F))

\* lines 62-100 of HandleComponentRightSizing: the component is desired enabled
HandleEnabled(cx, opts, componentConfig, st, newBinding, F) ==
    LET namespaceBindingUpdated == st.Namespace # newBinding /\ st.Enabled
        existingNamespace == st.Namespace
        newState == ComponentState(newBinding, TRUE)
        Applied(a) == [ cx |-> a.cx, state |-> newState, err |-> a.err ]
        Decoded(c, configData) ==
            IF configData.err THEN [ cx |-> c, state |-> newState, err |-> TRUE ]
            ELSE Applied(ApplyChangesFunc(c, componentConfig.owner, configData.val, newState, F))
        Fetched(g) ==
            IF g.res # "ok" THEN [ cx |-> g.cx, state |-> newState, err |-> TRUE ]
            ELSE Decoded(g.cx, GetRSConfigData(g.obj))
        CleanedUp(c) ==
            Fetched(Get(c, Key("ConfigMap", componentConfig.ConfigMapName, opts.ConfigNamespace),
                        Site("HandleComponentRightSizing", "Get", 0), F))
        Ensured(e) ==
            IF e.err THEN [ cx |-> e.cx, state |-> newState, err |-> TRUE ]
            ELSE IF namespaceBindingUpdated
            THEN CleanedUp(CleanupComponentResources(e.cx, componentConfig, existingNamespace,
                                                     opts.ConfigNamespace, TRUE, F))
            ELSE CleanedUp(e.cx)
    IN  Ensured(EnsureRSConfigMapExists(cx, componentConfig.ConfigMapName, opts.ConfigNamespace,
                                        componentConfig.owner, F))

\* a HandleDisabled that cleans up in the newly resolved namespace
HandleDisabled_CleansResolvedBinding(cx, opts, componentConfig, st, newBinding, F) ==
    [ cx    |-> CleanupComponentResources(cx, componentConfig, newBinding, opts.ConfigNamespace, FALSE, F),
      state |-> ComponentState(newBinding, FALSE),
      err   |-> FALSE ]

\* lines 49-60 of HandleComponentRightSizing: the component is desired disabled
HandleDisabled(cx, opts, componentConfig, st, newBinding, F) ==
    [ cx    |-> CleanupComponentResources(cx, componentConfig, st.Namespace, opts.ConfigNamespace, FALSE, F),
      state |-> ComponentState(newBinding, FALSE),
      err   |-> FALSE ]

\* a HandleComponentRightSizing that keeps an empty binding option as the namespace
HandleComponentRightSizing_EmptyBindingKept(cx, opts, componentConfig, st, F) ==
    LET known == componentConfig.ComponentType \in { ComponentTypeNamespace, ComponentTypeVirtualization }
        isEnabled == IF componentConfig.ComponentType = ComponentTypeNamespace
                     THEN opts.NamespaceEnabled ELSE opts.VirtualizationEnabled
        newBinding == IF componentConfig.ComponentType = ComponentTypeNamespace
                      THEN opts.NamespaceBinding ELSE opts.VirtualizationBinding
    IN  IF ~known THEN [ cx |-> cx, state |-> st, err |-> TRUE ]
        ELSE IF ~isEnabled THEN HandleDisabled(cx, opts, componentConfig, st, newBinding, F)
        ELSE HandleEnabled(cx, opts, componentConfig, st, newBinding, F)

\* a HandleComponentRightSizing whose switch has no default case
HandleComponentRightSizing_NoTypeCheck(cx, opts, componentConfig, st, F) ==
    LET isEnabled == IF componentConfig.ComponentType = ComponentTypeNamespace
                     THEN opts.NamespaceEnabled ELSE opts.VirtualizationEnabled
        binding == IF componentConfig.ComponentType = ComponentTypeNamespace
                   THEN opts.NamespaceBinding ELSE opts.VirtualizationBinding
        newBinding == IF binding = "" THEN componentConfig.DefaultNamespace ELSE binding
    IN  IF ~isEnabled THEN HandleDisabled(cx, opts, componentConfig, st, newBinding, F)
        ELSE HandleEnabled(cx, opts, componentConfig, st, newBinding, F)

\* HandleComponentRightSizing
HandleComponentRightSizing(cx, opts, componentConfig, st, F) ==
    LET known == componentConfig.ComponentType \in { ComponentTypeNamespace, ComponentTypeVirtualization }
        isEnabled == IF componentConfig.ComponentType = ComponentTypeNamespace
                     THEN opts.NamespaceEnabled ELSE opts.VirtualizationEnabled
        binding == IF componentConfig.ComponentType = ComponentTypeNamespace
                   THEN opts.NamespaceBinding ELSE opts.VirtualizationBinding
        newBinding == IF binding = "" THEN componentConfig.DefaultNamespace ELSE binding
    IN  IF ~known THEN [ cx |-> cx, state |-> st, err |-> TRUE ]
        ELSE IF ~isEnabled THEN HandleDisabled(cx, opts, componentConfig, st, newBinding, F)
        ELSE HandleEnabled(cx, opts, componentConfig, st, newBinding, F)

-----------------------------------------------------------------------------
(* Inputs *)

\* the sites of the best-effort deletes: an error there is logged and the call goes on
AddonDeleteSites == { Site("CleanupRightSizingAddon", op, 0) : op \in { "DeleteAddon", "DeleteTemplate", "DeletePlacement" } }
ConfigMapDeleteSites == { Site("CleanupComponentResources", "DeleteConfigMap", 0) }

\* the sites at which an error makes the handler return: at most one of them is reached with an error
AbortSites(comp) ==
    { Site("EnsureRSConfigMapExists", op, 0) : op \in { "Get", "Write" } }
        \cup { Site("HandleComponentRightSizing", "Get", 0) }
        \cup { Site(fn, op, 0) : fn \in { "createOrUpdateAddOnTemplate", "createOrUpdatePlacement",
                                          "createOrUpdateClusterManagementAddOn" },
                                 op \in { "Get", "Write" } }
        \cup { Site("createOrUpdateDashboardFromFile", op, i) :
                    op \in { "Get", "Write" }, i \in 1..Len(DashboardFiles(comp)) }

AtMostOne(S) == { {} } \cup { { x } : x \in S }

\* the sets of failing sites that give different runs of a call: any subset of the deletes the
\* call issues, and at most one failing site among those that end the call
FaultSets(comp, enabled, rebind) ==
    IF ~enabled THEN SUBSET (AddonDeleteSites \cup ConfigMapDeleteSites)
    ELSE IF rebind THEN { D \cup A : D \in SUBSET AddonDeleteSites, A \in AtMostOne(AbortSites(comp)) }
    ELSE AtMostOne(AbortSites(comp))

\* options for a call about comp; the other component's fields are set to different values
OptionsFor(comp, enabled, binding) ==
    LET otherBinding == IF binding = "ns-a" THEN "" ELSE "ns-a"
    IN  IF comp = ComponentTypeNamespace
        THEN RightSizingOptions(enabled, binding, ~enabled, otherBinding)
        ELSE RightSizingOptions(~enabled, otherBinding, enabled, binding)

\* the namespace a binding option resolves to
ResolvedBinding(binding) == IF binding = "" THEN DefaultNamespace ELSE binding

EmptyClient == [ store |-> store, trace |-> << >> ]

NoCall ==
    [ fn |-> "none", comp |-> "", ctype |-> "", opts |-> RightSizingOptions(FALSE, "", FALSE, ""),
      pre |-> [ state |-> ComponentState(DefaultNamespace, FALSE), store |-> [ k \in AllKeys |-> NotFound ] ],
      err |-> FALSE, trace |-> << >> ]

-----------------------------------------------------------------------------
(* Specification *)

Init ==
    /\ state = [ comp \in Components |-> ComponentState(DefaultNamespace, FALSE) ]
    /\ store = [ k \in AllKeys |-> NotFound ]
    /\ driven \in { { comp } : comp \in Components }
    /\ call = NoCall

\* namespace.HandleRightSizing / virtualization.HandleRightSizing: one reconcile of a component,
\* triggered while no call is in progress
HandleRightSizing(comp) ==
    /\ comp \in driven
    /\ call.fn = "none"
    /\ \E enabled \in BOOLEAN, binding \in BindingOptions :
       \E F \in FaultSets(comp, enabled, state[comp].Enabled /\ state[comp].Namespace # ResolvedBinding(binding)) :
          LET opts == OptionsFor(comp, enabled, binding)
              r == HandleComponentRightSizing(EmptyClient, opts, ComponentConfig(comp, comp), state[comp], F)
          IN  /\ state' = [ state EXCEPT ![comp] = r.state ]
              /\ store' = r.cx.store
              /\ call' = [ fn |-> "HandleComponentRightSizing", comp |-> comp, ctype |-> comp, opts |-> opts,
                           pre |-> [ state |-> state[comp], store |-> store ],
                           err |-> r.err, trace |-> r.cx.trace ]
    /\ UNCHANGED driven

\* HandleComponentRightSizing called with a ComponentConfig whose type is not a known one
HandleUnknownComponent(comp) ==
    /\ comp \in driven
    /\ call.fn = "none"
    /\ \E enabled \in BOOLEAN, binding \in BindingOptions,
          F \in AtMostOne({ Site("EnsureRSConfigMapExists", "Get", 0) }) :
          LET opts == OptionsFor(comp, enabled, binding)
              r == HandleComponentRightSizing(EmptyClient, opts, ComponentConfig(UnknownComponentType, comp),
                                              state[comp], F)
          IN  /\ state' = [ state EXCEPT ![comp] = r.state ]
              /\ store' = r.cx.store
              /\ call' = [ fn |-> "HandleComponentRightSizing", comp |-> comp, ctype |-> UnknownComponentType,
                           opts |-> opts, pre |-> [ state |-> state[comp], store |-> store ],
                           err |-> r.err, trace |-> r.cx.trace ]
    /\ UNCHANGED driven

\* the caller has taken the result of the call; the next trigger may arrive
Return ==
    /\ call.fn # "none"
    /\ call' = NoCall
    /\ UNCHANGED <<state, store, driven>>

\* an operator writes the configuration record of a component between two calls
EditConfigMap(comp) ==
    /\ comp \in driven
    /\ call.fn = "none"
    /\ \E data \in EditedConfigData :
          /\ store[ConfigMapKey(comp)] # ConfigMap(data)
          /\ store' = [ store EXCEPT ![ConfigMapKey(comp)] = ConfigMap(data) ]
    /\ UNCHANGED <<state, driven, call>>

Next ==
    \/ \E comp \in Components : HandleRightSizing(comp)
    \/ \E comp \in Components : HandleUnknownComponent(comp)
    \/ Return
    \/ \E comp \in Components : EditConfigMap(comp)

Spec == Init /\ [][Next]_vars

-----------------------------------------------------------------------------
(* Vocabulary of the properties: the last call as recorded in call *)

\* the last step was a call of HandleComponentRightSizing for a known component type
Reconciled == call.fn = "HandleComponentRightSizing" /\ call.ctype \in Components

\* the desired state and binding option of the called component
DesiredEnabled ==
    IF call.comp = ComponentTypeNamespace THEN call.opts.NamespaceEnabled ELSE call.opts.VirtualizationEnabled
BindingOption ==
    IF call.comp = ComponentTypeNamespace THEN call.opts.NamespaceBinding ELSE call.opts.VirtualizationBinding
Resolved == IF BindingOption = "" THEN DefaultNamespace ELSE BindingOption

\* the call found the component enabled and bound to another namespace than the resolved one
IsRebind == call.pre.state.Enabled /\ call.pre.state.Namespace # Resolved

\* the operations of the trace as <<operation, key>> pairs
OpsOf(trace) == [ i \in 1..Len(trace) |-> << trace[i].op, trace[i].key >> ]

\* indices of the trace entries issued by the given functions
IndicesOf(fns) == { i \in 1..Len(call.trace) : call.trace[i].site.fn \in fns }
CleanupFns == { "CleanupRightSizingAddon", "CleanupComponentResources" }
ErrorIndices == { i \in 1..Len(call.trace) : call.trace[i].res = "error" }
ApplyIndices == IndicesOf({ "ApplyChangesFunc" })

PreConfigMap == call.pre.store[ConfigMapKey(call.comp)]
DefaultConfigMap == [ Data |-> [ prometheusRuleConfig   |-> YamlDefaultRuleConfig,
                                 placementConfiguration |-> YamlDefaultPlacement ] ]

FullCleanupOps(comp, ns) ==
    << << "Delete", AddonKey(comp) >>, << "Delete", TemplateKey(comp) >>,
       << "Delete", PlacementKey(comp, ns) >>, << "Delete", ConfigMapKey(comp) >> >>
SoftCleanupOps(comp, ns) ==
    << << "Delete", AddonKey(comp) >>, << "Delete", TemplateKey(comp) >>,
       << "Delete", PlacementKey(comp, ns) >> >>

-----------------------------------------------------------------------------
(* Retried reconciles: the caller calls again with the same Options after a failed attempt *)

\* the result of reconciling comp once, with no failing store operation, from the initial state
FirstEnable(comp, binding) ==
    HandleComponentRightSizing([ store |-> [ k \in AllKeys |-> NotFound ], trace |-> << >> ],
                               OptionsFor(comp, TRUE, binding), ComponentConfig(comp, comp),
                               ComponentState(DefaultNamespace, FALSE), {})

\* a sequence of attempts starts from the initial state, or from a component enabled in a namespace
InitRetry ==
    /\ driven \in { { comp } : comp \in Components }
    /\ call = NoCall
    /\ \E comp \in driven :
          \/ /\ state = [ c \in Components |-> ComponentState(DefaultNamespace, FALSE) ]
             /\ store = [ k \in AllKeys |-> NotFound ]
          \/ \E binding \in BindingOptions :
                /\ state = [ c \in Components |->
                                IF c = comp THEN FirstEnable(comp, binding).state
                                ELSE ComponentState(DefaultNamespace, FALSE) ]
                /\ store = FirstEnable(comp, binding).cx.store

\* the first attempt of a sequence: the Options are chosen here and the starting point is kept
FirstAttempt(comp) ==
    /\ comp \in driven
    /\ call.fn = "none"
    /\ \E enabled \in BOOLEAN, binding \in BindingOptions :
       \E F \in FaultSets(comp, enabled, state[comp].Enabled /\ state[comp].Namespace # ResolvedBinding(binding)) :
          LET opts == OptionsFor(comp, enabled, binding)
              r == HandleComponentRightSizing(EmptyClient, opts, ComponentConfig(comp, comp), state[comp], F)
          IN  /\ state' = [ state EXCEPT ![comp] = r.state ]
              /\ store' = r.cx.store
              /\ call' = [ fn |-> "HandleComponentRightSizing", comp |-> comp, ctype |-> comp, opts |-> opts,
                           pre |-> [ state |-> state[comp], store |-> store ],
                           err |-> r.err, trace |-> r.cx.trace,
                           start |-> [ state |-> state[comp], store |-> store ], retried |-> FALSE ]
    /\ UNCHANGED driven

\* a later attempt: the previous one had a failing store operation, and the caller reconciles
\* again with the same Options
RetryRightSizing(comp) ==
    /\ comp \in driven
    /\ call.fn = "HandleComponentRightSizing" /\ call.comp = comp
    /\ ErrorIndices # {}
    /\ \E F \in FaultSets(comp, DesiredEnabled, state[comp].Enabled /\ state[comp].Namespace # Resolved) :
          LET r == HandleComponentRightSizing(EmptyClient, call.opts, ComponentConfig(comp, comp), state[comp], F)
          IN  /\ state' = [ state EXCEPT ![comp] = r.state ]
              /\ store' = r.cx.store
              /\ call' = [ call EXCEPT !.pre = [ state |-> state[comp], store |-> store ],
                                       !.err = r.err, !.trace = r.cx.trace, !.retried = TRUE ]
    /\ UNCHANGED driven

NextRetry ==
    \/ \E comp \in Components : FirstAttempt(comp)
    \/ \E comp \in Components : RetryRightSizing(comp)

SpecRetry == InitRetry /\ [][NextRetry]_vars

\* the records of a component other than its configuration record
DependentKeys(comp) == ComponentKeys(comp) \ { ConfigMapKey(comp) }

\* one reconcile with the Options of the attempts and no failing store operation, from the
\* state and store the sequence of attempts started from
OneSuccessfulReconcile ==
    HandleComponentRightSizing([ store |-> call.start.store, trace |-> << >> ], call.opts,
                               ComponentConfig(call.comp, call.comp), call.start.state, {})

\* the last attempt came after a failed one and had no failure itself
RetrySucceeded ==
    /\ call.fn = "HandleComponentRightSizing"
    /\ call.retried
    /\ ~call.err /\ ErrorIndices = {}

-----------------------------------------------------------------------------
(* Two reconciles in a row: the second follows the first with no change to the store between *)

\* a component enabled in a namespace, with its configuration record as created or as edited since
EnabledStarts(comp) ==
    { [ state |-> FirstEnable(comp, binding).state,
        store |-> [ FirstEnable(comp, binding).cx.store EXCEPT ![ConfigMapKey(comp)] = cm ] ] :
          binding \in BindingOptions,
          cm \in { ConfigMap(GetDefaultConfigFunc(comp)) } \cup { ConfigMap(data) : data \in EditedConfigData } }

InitTwice ==
    /\ driven \in { { comp } : comp \in Components }
    /\ call = NoCall
    /\ \E comp \in driven :
          \/ /\ state = [ c \in Components |-> ComponentState(DefaultNamespace, FALSE) ]
             /\ store = [ k \in AllKeys |-> NotFound ]
          \/ \E s \in EnabledStarts(comp) :
                /\ state = [ c \in Components |->
                                IF c = comp THEN s.state ELSE ComponentState(DefaultNamespace, FALSE) ]
                /\ store = s.store

\* the second reconcile: it meets no store error, and what the first one did is kept
SecondCall(comp) ==
    /\ comp \in driven
    /\ call.fn = "HandleComponentRightSizing" /\ call.comp = comp
    /\ ~call.retried
    /\ \E enabled \in BOOLEAN, binding \in BindingOptions :
          LET opts == OptionsFor(comp, enabled, binding)
              r == HandleComponentRightSizing(EmptyClient, opts, ComponentConfig(comp, comp), state[comp], {})
          IN  /\ state' = [ state EXCEPT ![comp] = r.state ]
              /\ store' = r.cx.store
              /\ call' = [ fn |-> "HandleComponentRightSizing", comp |-> comp, ctype |-> comp, opts |-> opts,
                           pre |-> [ state |-> state[comp], store |-> store ],
                           err |-> r.err, trace |-> r.cx.trace,
                           start |-> call.start, retried |-> TRUE,
                           first |-> [ opts |-> call.opts, pre |-> call.pre,
                                       err |-> call.err, trace |-> call.trace ] ]
    /\ UNCHANGED driven

NextTwice ==
    \/ \E comp \in Components : FirstAttempt(comp)
    \/ \E comp \in Components : SecondCall(comp)

SpecTwice == InitTwice /\ [][NextTwice]_vars

\* the current call is the second of two
IsSecondCall == call.fn = "HandleComponentRightSizing" /\ call.retried

\* what the first of the two calls was asked, and whether a store operation of it failed
FirstDesiredEnabled ==
    IF call.comp = ComponentTypeNamespace
    THEN call.first.opts.NamespaceEnabled ELSE call.first.opts.VirtualizationEnabled
FirstHadStoreError == \E i \in 1..Len(call.first.trace) : call.first.trace[i].res = "error"

-----------------------------------------------------------------------------
(* Cleanups outside a reconcile: the per-component wrappers, CleanupAllRightSizingResources,
   and the CleanupComponentResources of the policy-based variant *)

\* deleteDashboardFromFile, for the i-th file of the list: fetch, then delete what was fetched
deleteDashboardFromFile(cx, file, i, F) ==
    LET Fetched(g) ==
            IF g.res # "ok" THEN g.cx
            ELSE Delete(g.cx, DashboardKey(file), Site("deleteDashboardFromFile", "Delete", i), F).cx
    IN  Fetched(Get(cx, DashboardKey(file), Site("deleteDashboardFromFile", "Get", i), F))

RECURSIVE DeleteDashboardsFrom(_, _, _, _)
DeleteDashboardsFrom(cx, dashboardFiles, i, F) ==
    IF i > Len(dashboardFiles) THEN cx
    ELSE DeleteDashboardsFrom(deleteDashboardFromFile(cx, dashboardFiles[i], i, F), dashboardFiles, i + 1, F)

\* DeleteDashboards: an error on one file is logged and the loop goes on
DeleteDashboards(cx, dashboardFiles, F) == DeleteDashboardsFrom(cx, dashboardFiles, 1, F)

\* CleanupRSNamespaceResources
CleanupRSNamespaceResources(cx, namespace, configNamespace, bindingUpdated, F) ==
    DeleteDashboards(CleanupComponentResources(cx, ComponentConfig(ComponentTypeNamespace, ComponentTypeNamespace),
                                               namespace, configNamespace, bindingUpdated, F),
                     NamespaceDashboardFiles, F)

\* CleanupRSVirtualizationResources
CleanupRSVirtualizationResources(cx, namespace, configNamespace, bindingUpdated, F) ==
    DeleteDashboards(CleanupComponentResources(cx, ComponentConfig(ComponentTypeVirtualization, ComponentTypeVirtualization),
                                               namespace, configNamespace, bindingUpdated, F),
                     VirtualizationDashboardFiles, F)

\* a CleanupAllRightSizingResources that also puts every ComponentState back to its initial value
CleanupAllRightSizingResources_ResetsState(cx, configNamespace, st, F) ==
    [ cx    |-> CleanupRSVirtualizationResources(
                    CleanupRSNamespaceResources(cx, st[ComponentTypeNamespace].Namespace, configNamespace, FALSE, F),
                    st[ComponentTypeVirtualization].Namespace, configNamespace, FALSE, F),
      state |-> [ comp \in Components |-> ComponentState(DefaultNamespace, FALSE) ] ]

\* CleanupAllRightSizingResources: st is the ComponentState of each component, which it reads
CleanupAllRightSizingResources(cx, configNamespace, st, F) ==
    [ cx    |-> CleanupRSVirtualizationResources(
                    CleanupRSNamespaceResources(cx, st[ComponentTypeNamespace].Namespace, configNamespace, FALSE, F),
                    st[ComponentTypeVirtualization].Namespace, configNamespace, FALSE, F),
      state |-> st ]

\* the ComponentConfig of the policy-based variant (namespace component)
PolicyComponentConfig ==
    [ ComponentType            |-> ComponentTypeNamespace,
      ConfigMapName            |-> "rs-namespace-config",
      PlacementName            |-> "rs-placement",
      PlacementBindingName     |-> "rs-policyset-binding",
      PrometheusRulePolicyName |-> "rs-prom-rules-policy",
      DefaultNamespace         |-> DefaultNamespace ]

\* resourcesToDelete of the policy-based CleanupComponentResources
PolicyResourcesToDelete(componentConfig, namespace, configNamespace, bindingUpdated) ==
    LET commonResources ==
            << Key("PlacementBinding", componentConfig.PlacementBindingName, namespace),
               Key("Placement", componentConfig.PlacementName, namespace),
               Key("Policy", componentConfig.PrometheusRulePolicyName, namespace) >>
    IN  IF bindingUpdated THEN commonResources
        ELSE Append(commonResources, Key("ConfigMap", componentConfig.ConfigMapName, configNamespace))

RECURSIVE PolicyDeleteFrom(_, _, _, _)
PolicyDeleteFrom(cx, resourcesToDelete, i, F) ==
    IF i > Len(resourcesToDelete) THEN cx
    ELSE PolicyDeleteFrom(Delete(cx, resourcesToDelete[i], Site("CleanupComponentResources", "Delete", i), F).cx,
                          resourcesToDelete, i + 1, F)

\* CleanupComponentResources of the policy-based variant: one loop over resourcesToDelete
PolicyCleanupComponentResources(cx, componentConfig, namespace, configNamespace, bindingUpdated, F) ==
    PolicyDeleteFrom(cx, PolicyResourcesToDelete(componentConfig, namespace, configNamespace, bindingUpdated), 1, F)

\* the records of the policy-based variant
PolicyKeysIn(ns) ==
    { Key("PlacementBinding", PolicyComponentConfig.PlacementBindingName, ns),
      Key("Placement", PolicyComponentConfig.PlacementName, ns),
      Key("Policy", PolicyComponentConfig.PrometheusRulePolicyName, ns) }
PolicyKeys == UNION { PolicyKeysIn(ns) : ns \in Namespaces }
PolicyRecord(key) == [ Kind |-> key.kind ]

\* failing sites of a cleanup: any subset of the deletes of CleanupComponentResources, or one
\* operation on the first dashboard
PolicyDeleteSites == { Site("CleanupComponentResources", "Delete", i) : i \in 1..4 }
DashboardDeleteSites == { Site("deleteDashboardFromFile", op, 1) : op \in { "Get", "Delete" } }
CleanupFaultSets ==
    (SUBSET (AddonDeleteSites \cup ConfigMapDeleteSites)) \cup { { s } : s \in DashboardDeleteSites }

\* the process has just started; the records of the policy-based variant are there or not
InitCleanup ==
    /\ state = [ comp \in Components |-> ComponentState(DefaultNamespace, FALSE) ]
    /\ driven \in { { comp } : comp \in Components }
    /\ call = NoCall
    /\ \E P \in { {}, PolicyKeysIn(DefaultNamespace) } :
          /\ P # {} => driven = { ComponentTypeNamespace }
          /\ store = [ k \in AllKeys \cup PolicyKeys |-> IF k \in P THEN PolicyRecord(k) ELSE NotFound ]

\* the result of a cleanup as the caller sees it
CleanupCall(fn, comp, namespace, bindingUpdated, cx) ==
    [ fn |-> fn, comp |-> comp, ctype |-> comp, opts |-> NoCall.opts,
      pre |-> [ state |-> state[comp], store |-> store ],
      err |-> FALSE, trace |-> cx.trace,
      namespace |-> namespace, bindingUpdated |-> bindingUpdated ]

\* a per-component cleanup wrapper is called
CleanupRSResources(comp) ==
    /\ comp \in driven
    /\ call.fn = "none"
    /\ \E namespace \in Namespaces, bindingUpdated \in BOOLEAN, F \in CleanupFaultSets :
          LET cx == IF comp = ComponentTypeNamespace
                    THEN CleanupRSNamespaceResources(EmptyClient, namespace, ConfigNamespace, bindingUpdated, F)
                    ELSE CleanupRSVirtualizationResources(EmptyClient, namespace, ConfigNamespace, bindingUpdated, F)
          IN  /\ store' = cx.store
              /\ call' = CleanupCall("CleanupRSResources", comp, namespace, bindingUpdated, cx)
    /\ UNCHANGED <<state, driven>>

\* CleanupAllRightSizingResources is called
CleanupAll ==
    /\ call.fn = "none"
    /\ \E comp \in driven, F \in CleanupFaultSets :
          LET r == CleanupAllRightSizingResources(EmptyClient, ConfigNamespace, state, F)
          IN  /\ state' = r.state
              /\ store' = r.cx.store
              /\ call' = CleanupCall("CleanupAllRightSizingResources", comp, state[comp].Namespace, FALSE, r.cx)
    /\ UNCHANGED driven

\* the policy-based CleanupComponentResources is called
CleanupPolicyResources(comp) ==
    /\ comp \in driven
    /\ comp = PolicyComponentConfig.ComponentType
    /\ call.fn = "none"
    /\ \E namespace \in Namespaces, bindingUpdated \in BOOLEAN, F \in SUBSET PolicyDeleteSites :
          LET cx == PolicyCleanupComponentResources(EmptyClient, PolicyComponentConfig, namespace,
                                                    ConfigNamespace, bindingUpdated, F)
          IN  /\ store' = cx.store
              /\ call' = CleanupCall("PolicyCleanupComponentResources", comp, namespace, bindingUpdated, cx)
    /\ UNCHANGED <<state, driven>>

\* the caller has taken the result of a first enable that met no failure; what follows it is one
\* more reconcile or one cleanup
ReturnAfterFirstEnable ==
    /\ call.fn = "HandleComponentRightSizing"
    /\ DesiredEnabled /\ ~call.pre.state.Enabled
    /\ ~call.err /\ ErrorIndices = {}
    /\ call' = NoCall
    /\ UNCHANGED <<state, store, driven>>

\* the next reconcile of comp after CleanupAllRightSizingResources; the cleanup it follows is
\* kept in the record of the call
ReconcileAfterCleanupAll(comp) ==
    /\ comp \in driven
    /\ call.fn = "CleanupAllRightSizingResources"
    /\ \E enabled \in BOOLEAN, binding \in BindingOptions :
       \E F \in FaultSets(comp, enabled, state[comp].Enabled /\ state[comp].Namespace # ResolvedBinding(binding)) :
          LET opts == OptionsFor(comp, enabled, binding)
              Returned(r) ==
                  /\ state' = [ state EXCEPT ![comp] = r.state ]
                  /\ store' = r.cx.store
                  /\ call' = [ fn |-> "HandleComponentRightSizing", comp |-> comp, ctype |-> comp, opts |-> opts,
                               pre |-> [ state |-> state[comp], store |-> store ],
                               err |-> r.err, trace |-> r.cx.trace, cleanup |-> call ]
          IN  Returned(HandleComponentRightSizing(EmptyClient, opts, ComponentConfig(comp, comp), state[comp], F))
    /\ UNCHANGED driven

NextCleanup ==
    \/ \E comp \in Components : HandleRightSizing(comp)
    \/ ReturnAfterFirstEnable
    \/ \E comp \in Components : CleanupRSResources(comp)
    \/ CleanupAll
    \/ \E comp \in Components : ReconcileAfterCleanupAll(comp)
    \/ \E comp \in Components : CleanupPolicyResources(comp)

SpecCleanup == InitCleanup /\ [][NextCleanup]_vars

-----------------------------------------------------------------------------
(* Concurrent reconciles: a namespace reconcile and a virtualization reconcile whose store
   operations interleave on the one store *)

\* failing sites of an interleaved reconcile: none, or one of these
InterleaveFaults ==
    AtMostOne({ Site("createOrUpdatePlacement", "Write", 0), Site("CleanupRightSizingAddon", "DeleteTemplate", 0) })

\* a reconcile that has not begun
NotBegun == [ begun |-> FALSE ]

\* each component is at its initial state or was enabled in a namespace before
InitInterleave ==
    /\ driven = Components
    /\ \E E \in SUBSET Components :
          /\ state = [ comp \in Components |->
                          IF comp \in E THEN FirstEnable(comp, "ns-a").state
                          ELSE ComponentState(DefaultNamespace, FALSE) ]
          /\ store = [ k \in AllKeys |->
                          IF \E comp \in E : k \in ComponentKeys(comp)
                          THEN FirstEnable(CHOOSE comp \in E : k \in ComponentKeys(comp), "ns-a").cx.store[k]
                          ELSE NotFound ]
          /\ call = [ fn |-> "Interleaved", start |-> [ state |-> state, store |-> store ],
                      run |-> [ comp \in Components |-> NotBegun ], diverged |-> FALSE ]

\* the store operations a reconcile of comp issues from the store and ComponentState it finds
RunAlone(comp, opts, F, st, sto) ==
    HandleComponentRightSizing([ store |-> sto, trace |-> << >> ], opts, ComponentConfig(comp, comp), st, F)

\* HandleRightSizing of comp is entered: its Options are read and its course is determined by
\* what its store operations will return; an enabled reconcile writes its ComponentState before
\* its first store operation
BeginReconcile(comp) ==
    /\ call.fn = "Interleaved"
    /\ ~call.run[comp].begun
    /\ \E enabled \in BOOLEAN, binding \in BindingOptions, F \in InterleaveFaults :
          LET opts == OptionsFor(comp, enabled, binding)
              Begun(r) ==
                  /\ call' = [ call EXCEPT !.run[comp] =
                                  [ begun |-> TRUE, opts |-> opts, F |-> F, enabled |-> enabled,
                                    trace |-> r.cx.trace, pc |-> 0, view |-> store,
                                    result |-> r.cx.store, state |-> r.state, err |-> r.err ] ]
                  /\ state' = IF enabled THEN [ state EXCEPT ![comp] = r.state ] ELSE state
          IN  Begun(RunAlone(comp, opts, F, state[comp], store))
    /\ UNCHANGED <<store, driven>>

\* the trace entry is a store operation (the entry of the apply callback is not)
IsStoreOp(e) == e.res # "called"

\* what a store operation leaves under its key in the store s
Effect(run, e, s) ==
    IF e.res # "ok" \/ e.op = "Get" THEN s
    ELSE IF e.op = "Delete" THEN [ s EXCEPT ![e.key] = NotFound ]
    ELSE [ s EXCEPT ![e.key] = run.result[e.key] ]

\* the next store operation of comp's reconcile reaches the store; a disabled reconcile writes its
\* ComponentState after its last store operation. The operation sees what it would have seen
\* with no other reconcile running exactly when the record under its key is the one in view;
\* the entry of the apply callback is a step that touches no record.
StepReconcile(comp) ==
    /\ call.fn = "Interleaved"
    /\ call.run[comp].begun
    /\ call.run[comp].pc < Len(call.run[comp].trace)
    /\ LET run == call.run[comp]
           e == run.trace[run.pc + 1]
       IN  /\ store' = Effect(run, e, store)
           /\ call' = [ call EXCEPT !.run[comp].pc = run.pc + 1,
                                    !.run[comp].view = Effect(run, e, run.view),
                                    !.diverged = \/ call.diverged
                                                 \/ IsStoreOp(e) /\ store[e.key] # run.view[e.key] ]
           /\ state' = IF ~run.enabled /\ run.pc + 1 = Len(run.trace)
                       THEN [ state EXCEPT ![comp] = run.state ] ELSE state
    /\ UNCHANGED driven

NextInterleave ==
    \/ \E comp \in Components : BeginReconcile(comp)
    \/ \E comp \in Components : StepReconcile(comp)

SpecInterleave == InitInterleave /\ [][NextInterleave]_vars

\* both reconciles have issued all their store operations
BothFinished ==
    /\ call.fn = "Interleaved"
    /\ \A comp \in Components :
          call.run[comp].begun /\ call.run[comp].pc = Len(call.run[comp].trace)

\* the two reconciles run one after the other from the starting point, first before second
Sequential(first, second) ==
    LET Both(r1, r2) ==
            [ store |-> r2.cx.store,
              state |-> [ comp \in Components |-> IF comp = first THEN r1.state ELSE r2.state ],
              err   |-> [ comp \in Components |-> IF comp = first THEN r1.err ELSE r2.err ] ]
        Second(r1) ==
            Both(r1, RunAlone(second, call.run[second].opts, call.run[second].F,
                              call.start.state[second], r1.cx.store))
    IN  Second(RunAlone(first, call.run[first].opts, call.run[first].F,
                        call.start.state[first], call.start.store))

\* what the interleaved run has produced
Interleaved ==
    [ store |-> store, state |-> state, err |-> [ comp \in Components |-> call.run[comp].err ] ]

-----------------------------------------------------------------------------
(* The groups of the virtualization rule document: virtualization GeneratePrometheusRule *)

\* An expression is kept as the parts its text is put together from: "text" is a piece of the
\* format string, "nsFilter" a %s filled with the namespace selector, "labelJoin" the label join
\* appended by rule, "record" the name of a record inside a piece of text, "percentage" a %d
\* filled with the recommendation percentage
Part(kind, text) == [ kind |-> kind, text |-> text ]

\* the line break and indentation inside the raw format strings
Indent == "\n\t\t\t\t"

RECURSIVE ExprString(_)
\* r.Expr.String(): the text of an expression
ExprString(expr) == IF Len(expr) = 0 THEN "" ELSE Head(expr).text \o ExprString(Tail(expr))

\* rule that leaves the label join out of the expression
rule_WithoutLabelJoin(record, metricExpr, labelJoin) ==
    [ Record |-> record, Expr |-> metricExpr, Labels |-> { } ]

\* rule: a record without labels; the label join the closure holds is appended when there is one
rule(record, metricExpr, labelJoin) ==
    [ Record |-> record,
      Expr   |-> IF labelJoin # ""
                 THEN metricExpr \o << Part("text", " "), Part("labelJoin", labelJoin) >>
                 ELSE metricExpr,
      Labels |-> { } ]

\* ruleWithLabels: a record with the two fixed labels
ruleWithLabels(record, expr) ==
    [ Record |-> record,
      Expr   |-> expr,
      Labels |-> { << "profile", "Max OverAll" >>, << "aggregation", "1d" >> } ]

\* buildNamespaceRules5m
buildNamespaceRules5m(nsFilter, labelJoin) ==
    << rule("acm_rs_vm:namespace:cpu_request:5m",
            << Part("text", "max_over_time(sum (" \o Indent \o "  (kubevirt_vm_resource_requests{"),
               Part("nsFilter", nsFilter),
               Part("text", ", unit=\"cores\", resource=\"cpu\"} *" \o Indent
                            \o "  on(name,namespace,resource)" \o Indent
                            \o "  kubevirt_vm_resource_requests{"),
               Part("nsFilter", nsFilter),
               Part("text", ", unit=\"sockets\", resource=\"cpu\"} *" \o Indent
                            \o "  on(name,namespace,resource)" \o Indent
                            \o "  kubevirt_vm_resource_requests{"),
               Part("nsFilter", nsFilter),
               Part("text", ", unit=\"threads\", resource=\"cpu\"})" \o Indent
                            \o ") by (name, namespace)[5m:])") >>,
            labelJoin),
       rule("acm_rs_vm:namespace:memory_request:5m",
            << Part("text", "max_over_time(sum (" \o Indent \o "  kubevirt_vm_resource_requests{"),
               Part("nsFilter", nsFilter),
               Part("text", ", resource=\"memory\"}" \o Indent \o ") by (name,namespace)[5m:])") >>,
            labelJoin),
       rule("acm_rs_vm:namespace:cpu_usage:5m",
            << Part("text", "max_over_time(sum (" \o Indent
                            \o "  rate(kubevirt_vmi_cpu_usage_seconds_total{"),
               Part("nsFilter", nsFilter),
               Part("text", "}[5m:])" \o Indent \o ") by (name,namespace)[5m:])") >>,
            labelJoin),
       rule("acm_rs_vm:namespace:memory_usage:5m",
            << Part("text", "max_over_time(sum (" \o Indent \o "  kubevirt_vmi_memory_available_bytes{"),
               Part("nsFilter", nsFilter),
               Part("text", "} -" \o Indent \o "  kubevirt_vmi_memory_usable_bytes{"),
               Part("nsFilter", nsFilter),
               Part("text", "}" \o Indent \o ") by (name,namespace)[5m:])") >>,
            labelJoin) >>

\* buildNamespaceRules1d that divides the percentage itself and writes the quotient
buildNamespaceRules1d_ComputesFactor(configData) ==
    LET rp == configData.PrometheusRuleConfig.RecommendationPercentage
        MaxOverTime(record) ==
            << Part("text", "max_over_time("), Part("record", record), Part("text", "[1d])") >>
    IN  << ruleWithLabels("acm_rs_vm:namespace:cpu_request", MaxOverTime("acm_rs_vm:namespace:cpu_request:5m")),
           ruleWithLabels("acm_rs_vm:namespace:cpu_usage", MaxOverTime("acm_rs_vm:namespace:cpu_usage:5m")),
           ruleWithLabels("acm_rs_vm:namespace:memory_request", MaxOverTime("acm_rs_vm:namespace:memory_request:5m")),
           ruleWithLabels("acm_rs_vm:namespace:memory_usage", MaxOverTime("acm_rs_vm:namespace:memory_usage:5m")),
           ruleWithLabels("acm_rs_vm:namespace:cpu_recommendation",
                          << Part("text", "max_over_time("), Part("record", "acm_rs_vm:namespace:cpu_usage:5m"),
                             Part("text", "[1d])*("), Part("percentage", ToString(rp \div 100)),
                             Part("text", ")") >>),
           ruleWithLabels("acm_rs_vm:namespace:memory_recommendation",
                          << Part("text", "max_over_time("), Part("record", "acm_rs_vm:namespace:memory_usage:5m"),
                             Part("text", "[1d])*("), Part("percentage", ToString(rp \div 100)),
                             Part("text", ")") >>) >>

\* buildNamespaceRules1d
buildNamespaceRules1d(configData) ==
    LET rp == configData.PrometheusRuleConfig.RecommendationPercentage
        MaxOverTime(record) ==
            << Part("text", "max_over_time("), Part("record", record), Part("text", "[1d])") >>
    IN  << ruleWithLabels("acm_rs_vm:namespace:cpu_request", MaxOverTime("acm_rs_vm:namespace:cpu_request:5m")),
           ruleWithLabels("acm_rs_vm:namespace:cpu_usage", MaxOverTime("acm_rs_vm:namespace:cpu_usage:5m")),
           ruleWithLabels("acm_rs_vm:namespace:memory_request", MaxOverTime("acm_rs_vm:namespace:memory_request:5m")),
           ruleWithLabels("acm_rs_vm:namespace:memory_usage", MaxOverTime("acm_rs_vm:namespace:memory_usage:5m")),
           ruleWithLabels("acm_rs_vm:namespace:cpu_recommendation",
                          << Part("text", "max_over_time("), Part("record", "acm_rs_vm:namespace:cpu_usage:5m"),
                             Part("text", "[1d])*("), Part("percentage", ToString(rp)),
                             Part("text", "/100)") >>),
           ruleWithLabels("acm_rs_vm:namespace:memory_recommendation",
                          << Part("text", "max_over_time("), Part("record", "acm_rs_vm:namespace:memory_usage:5m"),
                             Part("text", "[1d])*("), Part("percentage", ToString(rp)),
                             Part("text", "/100)") >>) >>

\* buildClusterRules5m that lists its records in the order of the namespace group
buildClusterRules5m_NamespaceOrder(nsFilter, labelJoin) ==
    << rule("acm_rs_vm:cluster:cpu_request:5m",
            << Part("text", "max_over_time(sum (" \o Indent \o "  (kubevirt_vm_resource_requests{"),
               Part("nsFilter", nsFilter),
               Part("text", ", unit=\"cores\", resource=\"cpu\"} *" \o Indent
                            \o "  on(name,namespace,resource)" \o Indent
                            \o "  kubevirt_vm_resource_requests{"),
               Part("nsFilter", nsFilter),
               Part("text", ", unit=\"sockets\", resource=\"cpu\"} *" \o Indent
                            \o "  on(name,namespace,resource)" \o Indent
                            \o "  kubevirt_vm_resource_requests{"),
               Part("nsFilter", nsFilter),
               Part("text", ", unit=\"threads\", resource=\"cpu\"})" \o Indent
                            \o ") by (cluster)[5m:])") >>,
            labelJoin),
       rule("acm_rs_vm:cluster:memory_request:5m",
            << Part("text", "max_over_time(sum (" \o Indent \o "  kubevirt_vm_resource_requests{"),
               Part("nsFilter", nsFilter),
               Part("text", ", resource=\"memory\"}" \o Indent \o ") by (cluster)[5m:])") >>,
            labelJoin),
       rule("acm_rs_vm:cluster:cpu_usage:5m",
            << Part("text", "max_over_time(sum (" \o Indent
                            \o "  rate(kubevirt_vmi_cpu_usage_seconds_total{"),
               Part("nsFilter", nsFilter),
               Part("text", "}[5m:])" \o Indent \o ") by (cluster)[5m:])") >>,
            labelJoin),
       rule("acm_rs_vm:cluster:memory_usage:5m",
            << Part("text", "max_over_time(sum (" \o Indent \o "  kubevirt_vmi_memory_available_bytes{"),
               Part("nsFilter", nsFilter),
               Part("text", "} -" \o Indent \o "  kubevirt_vmi_memory_usable_bytes{"),
               Part("nsFilter", nsFilter),
               Part("text", "}" \o Indent \o ") by (cluster)[5m:])") >>,
            labelJoin) >>

\* buildClusterRules5m
buildClusterRules5m(nsFilter, labelJoin) ==
    << rule("acm_rs_vm:cluster:cpu_request:5m",
            << Part("text", "max_over_time(sum (" \o Indent \o "  (kubevirt_vm_resource_requests{"),
               Part("nsFilter", nsFilter),
               Part("text", ", unit=\"cores\", resource=\"cpu\"} *" \o Indent
                            \o "  on(name,namespace,resource)" \o Indent
                            \o "  kubevirt_vm_resource_requests{"),
               Part("nsFilter", nsFilter),
               Part("text", ", unit=\"sockets\", resource=\"cpu\"} *" \o Indent
                            \o "  on(name,namespace,resource)" \o Indent
                            \o "  kubevirt_vm_resource_requests{"),
               Part("nsFilter", nsFilter),
               Part("text", ", unit=\"threads\", resource=\"cpu\"})" \o Indent
                            \o ") by (cluster)[5m:])") >>,
            labelJoin),
       rule("acm_rs_vm:cluster:cpu_usage:5m",
            << Part("text", "max_over_time(sum (" \o Indent
                            \o "  rate(kubevirt_vmi_cpu_usage_seconds_total{"),
               Part("nsFilter", nsFilter),
               Part("text", "}[5m:])" \o Indent \o ") by (cluster)[5m:])") >>,
            labelJoin),
       rule("acm_rs_vm:cluster:memory_request:5m",
            << Part("text", "max_over_time(sum (" \o Indent \o "  kubevirt_vm_resource_requests{"),
               Part("nsFilter", nsFilter),
               Part("text", ", resource=\"memory\"}" \o Indent \o ") by (cluster)[5m:])") >>,
            labelJoin),
       rule("acm_rs_vm:cluster:memory_usage:5m",
            << Part("text", "max_over_time(sum (" \o Indent \o "  kubevirt_vmi_memory_available_bytes{"),
               Part("nsFilter", nsFilter),
               Part("text", "} -" \o Indent \o "  kubevirt_vmi_memory_usable_bytes{"),
               Part("nsFilter", nsFilter),
               Part("text", "}" \o Indent \o ") by (cluster)[5m:])") >>,
            labelJoin) >>

\* buildClusterRules1d
buildClusterRules1d(configData) ==
    LET rp == configData.PrometheusRuleConfig.RecommendationPercentage
        MaxOverTime(record) ==
            << Part("text", "max_over_time("), Part("record", record), Part("text", "[1d])") >>
    IN  << ruleWithLabels("acm_rs_vm:cluster:cpu_request", MaxOverTime("acm_rs_vm:cluster:cpu_request:5m")),
           ruleWithLabels("acm_rs_vm:cluster:cpu_usage", MaxOverTime("acm_rs_vm:cluster:cpu_usage:5m")),
           ruleWithLabels("acm_rs_vm:cluster:cpu_recommendation",
                          << Part("text", "max_over_time("), Part("record", "acm_rs_vm:cluster:cpu_usage:5m"),
                             Part("text", "[1d]) * ("), Part("percentage", ToString(rp)),
                             Part("text", "/100)") >>),
           ruleWithLabels("acm_rs_vm:cluster:memory_request", MaxOverTime("acm_rs_vm:cluster:memory_request:5m")),
           ruleWithLabels("acm_rs_vm:cluster:memory_usage", MaxOverTime("acm_rs_vm:cluster:memory_usage:5m")),
           ruleWithLabels("acm_rs_vm:cluster:memory_recommendation",
                          << Part("text", "max_over_time("), Part("record", "acm_rs_vm:cluster:memory_usage:5m"),
                             Part("text", "[1d]) * ("), Part("percentage", ToString(rp)),
                             Part("text", "/100)") >>) >>

\* the groups with the two 5-minute groups ahead of the two 1-day groups
PrometheusRuleGroups_FiveMinutesFirst(configData, nsFilter, labelJoin) ==
    << [ Name     |-> "acm-vm-right-sizing-namespace-5m.rule",
         Interval |-> "5m",
         Rules    |-> buildNamespaceRules5m(nsFilter, labelJoin) ],
       [ Name     |-> "acm-vm-right-sizing-cluster-5m.rule",
         Interval |-> "5m",
         Rules    |-> buildClusterRules5m(nsFilter, labelJoin) ],
       [ Name     |-> "acm-vm-right-sizing-namespace-1d.rules",
         Interval |-> "15m",
         Rules    |-> buildNamespaceRules1d(configData) ],
       [ Name     |-> "acm-vm-right-sizing-cluster-1d.rule",
         Interval |-> "15m",
         Rules    |-> buildClusterRules1d(configData) ] >>

\* Spec.Groups of the document GeneratePrometheusRule returns without an error
PrometheusRuleGroups(configData, nsFilter, labelJoin) ==
    << [ Name     |-> "acm-vm-right-sizing-namespace-5m.rule",
         Interval |-> "5m",
         Rules    |-> buildNamespaceRules5m(nsFilter, labelJoin) ],
       [ Name     |-> "acm-vm-right-sizing-namespace-1d.rules",
         Interval |-> "15m",
         Rules    |-> buildNamespaceRules1d(configData) ],
       [ Name     |-> "acm-vm-right-sizing-cluster-5m.rule",
         Interval |-> "5m",
         Rules    |-> buildClusterRules5m(nsFilter, labelJoin) ],
       [ Name     |-> "acm-vm-right-sizing-cluster-1d.rule",
         Interval |-> "15m",
         Rules    |-> buildClusterRules1d(configData) ] >>

-----------------------------------------------------------------------------
(* The rule builders applied to bounded inputs: helper.go and the generators *)

\* the longest labelFilterCriteria list that is enumerated
MaxLabelFilters == 3

\* RSLabelFilter
RSLabelFilter(labelName, inclusion, exclusion) ==
    [ LabelName |-> labelName, InclusionCriteria |-> inclusion, ExclusionCriteria |-> exclusion ]

\* label names of the enumerated entries: the one BuildLabelJoin looks for, and another one
LabelNames == { "label_env", "label_app" }

\* <<inclusion, exclusion>> of a label filter entry: neither, one of them, or both
LabelCriteria ==
    { << << >>, << >> >>,
      << << "prod", "staging" >>, << >> >>,
      << << >>, << "dev", "test" >> >>,
      << << "prod" >>, << "dev" >> >> }

LabelFilters == { RSLabelFilter(n, c[1], c[2]) : n \in LabelNames, c \in LabelCriteria }

LabelFilterLists == UNION { [ 1..n -> LabelFilters ] : n \in 0..MaxLabelFilters }

\* <<inclusion, exclusion>> of namespaceFilterCriteria; entries repeat and hold regex characters
NamespaceCriteria ==
    { << << >>, << >> >>,
      << << "prod.*", "dev", "prod.*" >>, << >> >>,
      << << >>, << "openshift.*", "kube.*" >> >>,
      << << "prod" >>, << "openshift.*" >> >> }

\* recommendationPercentage values
Percentages == { 0, 110, 120 }

RuleConfigs ==
    { RSPrometheusRuleConfig(c[1], c[2], l, p) :
        c \in NamespaceCriteria, l \in LabelFilterLists, p \in Percentages }

\* the decoded configuration handed to the generators and the apply callbacks
RSConfigMapData(ruleConfig) ==
    [ PrometheusRuleConfig |-> ruleConfig, PlacementConfiguration |-> DefaultRSPlacement ]

InitRules ==
    /\ state = [ comp \in Components |-> ComponentState(DefaultNamespace, FALSE) ]
    /\ store = [ k \in AllKeys |-> NotFound ]
    /\ driven = Components
    /\ call = NoCall

\* a call of BuildNamespaceFilter
CallBuildNamespaceFilter ==
    /\ call.fn = "none"
    /\ \E c \in NamespaceCriteria :
         LET nsConfig == RSPrometheusRuleConfig(c[1], c[2], << >>, 110)
         IN  call' = [ fn |-> "BuildNamespaceFilter", arg |-> nsConfig,
                       res |-> BuildNamespaceFilter(nsConfig) ]
    /\ UNCHANGED << state, store, driven >>

\* a call of BuildLabelJoin
CallBuildLabelJoin ==
    /\ call.fn = "none"
    /\ \E labelFilters \in LabelFilterLists :
         call' = [ fn |-> "BuildLabelJoin", arg |-> labelFilters,
                   res |-> BuildLabelJoin(labelFilters) ]
    /\ UNCHANGED << state, store, driven >>

\* the groups of the document a virtualization GeneratePrometheusRule call returned: none next
\* to an error
ReturnedGroups(configData, prometheusRule) ==
    IF prometheusRule.err THEN << >>
    ELSE PrometheusRuleGroups(configData, prometheusRule.val.NsFilter, prometheusRule.val.LabelJoin)

\* a call of a component's GeneratePrometheusRule; the groups are those of the virtualization
\* generator
CallGeneratePrometheusRule(comp) ==
    /\ call.fn = "none"
    /\ \E ruleConfig \in RuleConfigs :
         LET configData == RSConfigMapData(ruleConfig)
             Returned(prometheusRule) ==
                 IF comp = ComponentTypeVirtualization
                 THEN [ fn |-> "GeneratePrometheusRule", comp |-> comp, arg |-> configData,
                        res |-> prometheusRule,
                        groups |-> ReturnedGroups(configData, prometheusRule) ]
                 ELSE [ fn |-> "GeneratePrometheusRule", comp |-> comp, arg |-> configData,
                        res |-> prometheusRule ]
         IN  call' = Returned(GeneratePrometheusRule(comp, configData))
    /\ UNCHANGED << state, store, driven >>

\* a call of a component's apply callback on the empty store
CallApplyChangesFunc(comp) ==
    /\ call.fn = "none"
    /\ \E ruleConfig \in RuleConfigs :
         LET Applied(a) ==
                 /\ store' = a.cx.store
                 /\ call' = [ fn |-> "ApplyChangesFunc", comp |-> comp,
                              arg |-> RSConfigMapData(ruleConfig),
                              pre |-> store, err |-> a.err, trace |-> a.cx.trace ]
         IN  Applied(ApplyChangesFunc(EmptyClient, comp, RSConfigMapData(ruleConfig),
                                      ComponentState(DefaultNamespace, TRUE), {}))
    /\ UNCHANGED << state, driven >>

\* the nil *RightSizingValues
NilValues == [ nil |-> TRUE ]

\* EnableRightSizing that leaves out the binding of a component that is disabled
EnableRightSizing_DropsDisabledBinding(opts) ==
    IF ~opts.NamespaceEnabled /\ ~opts.VirtualizationEnabled THEN NilValues
    ELSE [ NamespaceEnabled      |-> opts.NamespaceEnabled,
           NamespaceBinding      |-> IF opts.NamespaceEnabled THEN opts.NamespaceBinding ELSE "",
           VirtualizationEnabled |-> opts.VirtualizationEnabled,
           VirtualizationBinding |-> IF opts.VirtualizationEnabled THEN opts.VirtualizationBinding ELSE "" ]

\* manifests.EnableRightSizing
EnableRightSizing(opts) ==
    IF ~opts.NamespaceEnabled /\ ~opts.VirtualizationEnabled THEN NilValues
    ELSE [ NamespaceEnabled      |-> opts.NamespaceEnabled,
           NamespaceBinding      |-> opts.NamespaceBinding,
           VirtualizationEnabled |-> opts.VirtualizationEnabled,
           VirtualizationBinding |-> opts.VirtualizationBinding ]

\* handlers.IsRightSizingEnabled
IsRightSizingEnabled(opts) == opts.NamespaceEnabled \/ opts.VirtualizationEnabled

\* a call of EnableRightSizing and of IsRightSizingEnabled with the same options
CallEnableRightSizing ==
    /\ call.fn = "none"
    /\ \E nsEnabled \in BOOLEAN, virtEnabled \in BOOLEAN, nsBinding \in BindingOptions, virtBinding \in BindingOptions :
         LET opts == RightSizingOptions(nsEnabled, nsBinding, virtEnabled, virtBinding)
         IN  call' = [ fn |-> "EnableRightSizing", arg |-> opts,
                       res |-> EnableRightSizing(opts), enabled |-> IsRightSizingEnabled(opts) ]
    /\ UNCHANGED << state, store, driven >>

NextRules ==
    \/ CallBuildNamespaceFilter
    \/ CallBuildLabelJoin
    \/ \E comp \in Components : CallGeneratePrometheusRule(comp)
    \/ \E comp \in Components : CallApplyChangesFunc(comp)
    \/ CallEnableRightSizing

SpecRules == InitRules /\ [][NextRules]_vars

-----------------------------------------------------------------------------
(* Properties *)

\* C1: a reconcile of a known component desired disabled issues exactly the full cleanup
\* (addon, template, placement, configuration record) with the placement delete aimed at the
\* namespace recorded in state before the call, then leaves state = (resolved binding, disabled)
\* and returns no error, whether state.Enabled was true or false before.
C1_DisableCleansPreviousNamespace ==
    (Reconciled /\ ~DesiredEnabled) =>
        /\ OpsOf(call.trace) = FullCleanupOps(call.comp, call.pre.state.Namespace)
        /\ state[call.comp] = ComponentState(Resolved, FALSE)
        /\ ~call.err

\* C1 witness: a disabling call on an enabled component whose binding option names another
\* namespace than the recorded one, and whose placement delete removed the placement there
C1_Witness ==
    /\ Reconciled /\ ~DesiredEnabled
    /\ call.pre.state.Enabled
    /\ call.pre.state.Namespace # Resolved
    /\ call.pre.store[PlacementKey(call.comp, call.pre.state.Namespace)] # NotFound
    /\ store[PlacementKey(call.comp, call.pre.state.Namespace)] = NotFound
    /\ state[call.comp].Namespace = Resolved

\* C2: after a reconcile desired disabled in which no delete failed, none of the component's
\* records exists: configuration record, addon, template, placement in the previous namespace.
C2_DisableRemovesAllRecords ==
    (Reconciled /\ ~DesiredEnabled /\ ErrorIndices = {}) =>
        /\ store[ConfigMapKey(call.comp)] = NotFound
        /\ store[AddonKey(call.comp)] = NotFound
        /\ store[TemplateKey(call.comp)] = NotFound
        /\ store[PlacementKey(call.comp, call.pre.state.Namespace)] = NotFound

\* C2 witness: all four records existed before such a call
C2_Witness ==
    /\ Reconciled /\ ~DesiredEnabled /\ ErrorIndices = {}
    /\ call.pre.store[ConfigMapKey(call.comp)] # NotFound
    /\ call.pre.store[AddonKey(call.comp)] # NotFound
    /\ call.pre.store[TemplateKey(call.comp)] # NotFound
    /\ call.pre.store[PlacementKey(call.comp, call.pre.state.Namespace)] # NotFound
    /\ store[ConfigMapKey(call.comp)] = NotFound

\* C3: in a reconcile desired enabled, a configuration record that exists keeps its content,
\* and an absent one is created with the default payload when the ensure step does not fail
\* (and stays absent when it fails).
C3_ConfigRecordEnsured ==
    (Reconciled /\ DesiredEnabled) =>
        IF PreConfigMap # NotFound THEN store[ConfigMapKey(call.comp)] = PreConfigMap
        ELSE IF IndicesOf({ "EnsureRSConfigMapExists" }) \cap ErrorIndices = {}
        THEN store[ConfigMapKey(call.comp)] = DefaultConfigMap
        ELSE store[ConfigMapKey(call.comp)] = NotFound

\* C3 witness: a rebind reconcile (so a cleanup ran) that found an edited configuration record
C3_Witness ==
    /\ Reconciled /\ DesiredEnabled /\ IsRebind /\ ~call.err
    /\ PreConfigMap # NotFound /\ PreConfigMap # DefaultConfigMap
    /\ IndicesOf(CleanupFns) # {}
    /\ store[ConfigMapKey(call.comp)] = PreConfigMap

\* the configuration record the handler reads: the one found, or the defaults it created
ConfigMapRead == IF PreConfigMap # NotFound THEN PreConfigMap ELSE DefaultConfigMap

\* the ensure step and the fetch of the configuration record succeeded and the record decodes
ConfigStepsSucceeded ==
    /\ IndicesOf({ "EnsureRSConfigMapExists", "HandleComponentRightSizing" }) \cap ErrorIndices = {}
    /\ ~GetRSConfigData(ConfigMapRead).err

\* C4: in every reconcile desired enabled whose ensure, fetch and decode steps succeed (first
\* activation, refresh and rebind alike) the apply callback is invoked exactly once and its
\* argument is the decoding of the configuration record as stored at that time.
C4_ApplyReceivesStoredConfig ==
    (Reconciled /\ DesiredEnabled /\ ConfigStepsSucceeded) =>
        /\ Cardinality(ApplyIndices) = 1
        /\ \A i \in ApplyIndices :
              /\ call.trace[i].key.configData.PrometheusRuleConfig
                    = UnmarshalRuleConfig(ConfigMapRead.Data.prometheusRuleConfig).val
              /\ call.trace[i].key.configData.PlacementConfiguration
                    = UnmarshalPlacement(ConfigMapRead.Data.placementConfiguration).val

\* C4 witness: a steady-state refresh (enabled, binding unchanged) over an edited record hands
\* the edited percentage to the callback
C4_Witness ==
    /\ Reconciled /\ DesiredEnabled /\ ConfigStepsSucceeded
    /\ call.pre.state.Enabled /\ ~IsRebind
    /\ PreConfigMap # NotFound /\ PreConfigMap # DefaultConfigMap
    /\ \E i \in ApplyIndices :
          call.trace[i].key.configData.PrometheusRuleConfig.RecommendationPercentage = 120

\* the soft cleanup ran: the three dependent deletes were issued for the previous namespace,
\* with no delete of the configuration record
SoftCleanupRan ==
    /\ IndicesOf(CleanupFns) # {}
    /\ \E i \in 1..Len(call.trace) :
          /\ i + 2 <= Len(call.trace)
          /\ SubSeq(OpsOf(call.trace), i, i + 2) = SoftCleanupOps(call.comp, call.pre.state.Namespace)
          /\ IndicesOf(CleanupFns) = i..(i + 2)

\* no operation of the cleanup addressed the configuration record
ConfigMapUntouched ==
    \A i \in IndicesOf(CleanupFns) : call.trace[i].key # ConfigMapKey(call.comp)

\* C5 as stated: the soft cleanup runs exactly when the component is desired enabled, was
\* enabled before and its recorded namespace differs from the resolved binding, and it never
\* touches the configuration record.
C5_SoftCleanupIffRebind ==
    Reconciled =>
        /\ (DesiredEnabled => (SoftCleanupRan <=> IsRebind))
        /\ (~DesiredEnabled => ~SoftCleanupRan)
        /\ (SoftCleanupRan => ConfigMapUntouched)

\* C6: a rebind reconcile (enabled before, recorded namespace A, resolved binding B # A) that
\* returns no error and in which no store operation failed leaves the configuration record it
\* found unchanged, leaves a placement in B and none in A, and an addon that references the
\* placement in B.
C6_RebindRelocatesDependents ==
    (Reconciled /\ DesiredEnabled /\ IsRebind /\ ~call.err /\ ErrorIndices = {} /\ PreConfigMap # NotFound) =>
        /\ store[ConfigMapKey(call.comp)] = PreConfigMap
        /\ store[PlacementKey(call.comp, Resolved)] # NotFound
        /\ store[PlacementKey(call.comp, call.pre.state.Namespace)] = NotFound
        /\ store[AddonKey(call.comp)] # NotFound
        /\ store[AddonKey(call.comp)].Spec.PlacementRef
              = [ Name |-> PlacementName(call.comp), Namespace |-> Resolved ]

\* C6 witness: such a rebind where the placement and the addon existed for A before the call
C6_Witness ==
    /\ Reconciled /\ DesiredEnabled /\ IsRebind /\ ~call.err /\ ErrorIndices = {} /\ PreConfigMap # NotFound
    /\ call.pre.store[PlacementKey(call.comp, call.pre.state.Namespace)] # NotFound
    /\ call.pre.store[PlacementKey(call.comp, Resolved)] = NotFound
    /\ call.pre.store[AddonKey(call.comp)] # NotFound
    /\ call.pre.store[AddonKey(call.comp)].Spec.PlacementRef.Namespace = call.pre.state.Namespace
    /\ store[PlacementKey(call.comp, Resolved)] # NotFound

\* C7 as stated: in a rebind reconcile the deletes of the partial cleanup come before every
\* operation that ensures or fetches the configuration record and before the apply callback.
C7_CleanupBeforeEnsure ==
    (Reconciled /\ DesiredEnabled /\ IsRebind) =>
        /\ IndicesOf(CleanupFns) # {}
        /\ \A i \in IndicesOf(CleanupFns) :
              \A j \in IndicesOf({ "EnsureRSConfigMapExists", "HandleComponentRightSizing", "ApplyChangesFunc" }) :
                  i < j

\* a step of the enabled path failed: a store error at a site that ends the call, a
\* configuration record that does not decode, or a rule configuration that is rejected
AbortErrorIndices == { i \in ErrorIndices : call.trace[i].site.fn \notin CleanupFns }
DecodeFailed ==
    /\ IndicesOf({ "EnsureRSConfigMapExists", "HandleComponentRightSizing" }) \cap ErrorIndices = {}
    /\ GetRSConfigData(ConfigMapRead).err

\* C8: when a step of a reconcile desired enabled fails, the call returns an error, the failing
\* operation is the last one of the trace (a record that does not decode is never applied), and
\* state is what was committed before the ensure step: enabled, bound to the resolved binding.
C8_FailureAbortsAfterCommit ==
    (Reconciled /\ DesiredEnabled /\ (AbortErrorIndices # {} \/ DecodeFailed)) =>
        /\ call.err
        /\ \A i \in AbortErrorIndices : i = Len(call.trace)
        /\ DecodeFailed => (ApplyIndices = {} /\ call.trace[Len(call.trace)].site.fn = "HandleComponentRightSizing")
        /\ state[call.comp] = ComponentState(Resolved, TRUE)

\* C8 witness: the apply callback failed in a rebind of a component that was enabled elsewhere
C8_Witness ==
    /\ Reconciled /\ DesiredEnabled /\ IsRebind /\ call.err
    /\ ApplyIndices # {}
    /\ AbortErrorIndices = { Len(call.trace) }
    /\ call.trace[Len(call.trace)].site.fn = "createOrUpdatePlacement"
    /\ state[call.comp] = ComponentState(Resolved, TRUE)

\* C10: a call with a component type that is neither namespace nor virtualization returns an
\* error, issues no store operation, does not call the apply callback, and leaves state and
\* store as they were.
C10_UnknownComponentRejected ==
    (call.fn = "HandleComponentRightSizing" /\ call.ctype \notin Components) =>
        /\ call.err
        /\ call.trace = << >>
        /\ state[call.comp] = call.pre.state
        /\ store = call.pre.store

\* C10 witness: such a call, asking to enable with a binding other than the recorded one, on a
\* component that has records in the store
C10_Witness ==
    /\ call.fn = "HandleComponentRightSizing" /\ call.ctype = UnknownComponentType
    /\ DesiredEnabled /\ IsRebind
    /\ store[AddonKey(call.comp)] # NotFound
    /\ call.err

\* C9 as stated: once an attempt without failure follows failed attempts with the same Options,
\* the store holds the dependent records one fully successful reconcile from the starting point
\* would have left, and no placement of the component is in a namespace other than
\* state.Namespace.
C9_PartialCompletionConverges ==
    RetrySucceeded =>
        /\ \A k \in DependentKeys(call.comp) : store[k] = OneSuccessfulReconcile.cx.store[k]
        /\ \A ns \in Namespaces :
              store[PlacementKey(call.comp, ns)] # NotFound => ns = state[call.comp].Namespace

\* C11: after every reconcile for a known component type (desired enabled or disabled, returning
\* an error or not) state.Namespace is the component's binding option when that is not empty,
\* and the component's default namespace when it is.
C11_StateNamespaceIsResolvedBinding ==
    Reconciled =>
        state[call.comp].Namespace
            = (IF BindingOption # "" THEN BindingOption
               ELSE ComponentConfig(call.ctype, call.comp).DefaultNamespace)

\* C11 witness: an enabling call with an empty binding option that failed, on a component
\* recorded in another namespace, left state.Namespace at the default namespace
C11_Witness ==
    /\ Reconciled /\ DesiredEnabled /\ call.err
    /\ BindingOption = ""
    /\ call.pre.state.Namespace # DefaultNamespace
    /\ state[call.comp].Namespace = DefaultNamespace

\* the records a cleanup of the component addresses, in whatever namespace the placement is
CleanupKeys(comp) ==
    { ConfigMapKey(comp), TemplateKey(comp), AddonKey(comp) }
        \cup { PlacementKey(comp, ns) : ns \in Namespaces }

\* the first call of the two failed to delete the configuration record
FirstConfigMapDeleteFailed ==
    \E i \in 1..Len(call.first.trace) :
        /\ call.first.trace[i].op = "Delete"
        /\ call.first.trace[i].key = ConfigMapKey(call.comp)
        /\ call.first.trace[i].res = "error"

\* C12: when HandleComponentRightSizing is called twice with the same Options, nothing changes
\* the store in between and no store operation fails, then after the second call every record
\* (dependent ones and the configuration record) is what it was after the first call, the
\* ComponentState is the same, and the second call writes only by updating records that already
\* exist, with the content they already have: it creates nothing and deletes nothing.
C12_SecondCallIsStableOverwrite ==
    (IsSecondCall /\ call.opts = call.first.opts /\ ~FirstHadStoreError) =>
        /\ store = call.pre.store
        /\ state[call.comp] = call.pre.state
        /\ call.err = call.first.err
        /\ \A i \in 1..Len(call.trace) :
              /\ call.trace[i].op # "Create"
              /\ call.trace[i].op = "Delete" => call.trace[i].res = "notfound"
              /\ call.trace[i].op = "Update" =>
                    /\ call.trace[i].res = "ok"
                    /\ call.pre.store[call.trace[i].key] = store[call.trace[i].key]

\* C12 witness: the first call created the dependent records, and the second, with the same
\* Options, updated the addon template that was already there.
C12_Witness ==
    /\ IsSecondCall /\ call.opts = call.first.opts /\ ~FirstHadStoreError
    /\ DesiredEnabled /\ ~call.err
    /\ \E i \in 1..Len(call.first.trace) :
          call.first.trace[i].op = "Create" /\ call.first.trace[i].key = TemplateKey(call.comp)
    /\ \E i \in 1..Len(call.trace) :
          call.trace[i].op = "Update" /\ call.trace[i].key = TemplateKey(call.comp)

\* C13: when a reconcile with the component desired disabled is followed by one with it desired
\* enabled, then, unless the delete of the configuration record failed, the record is gone after
\* the first call, and the second call (meeting no store failure) returns no error and leaves a
\* configuration record holding the default payload, whatever the record held before the disable.
C13_DisableThenEnableRestoresDefaults ==
    (IsSecondCall /\ ~FirstDesiredEnabled /\ ~FirstConfigMapDeleteFailed /\ DesiredEnabled) =>
        /\ call.pre.store[ConfigMapKey(call.comp)] = NotFound
        /\ ~call.err
        /\ store[ConfigMapKey(call.comp)] = ConfigMap(GetDefaultConfigFunc(call.comp))
        /\ store[ConfigMapKey(call.comp)] = DefaultConfigMap

\* C13 witness: the record held an edited payload before the disable, and holds the default one
\* after the enable.
C13_Witness ==
    /\ IsSecondCall /\ ~FirstDesiredEnabled /\ ~FirstConfigMapDeleteFailed /\ DesiredEnabled
    /\ call.first.pre.store[ConfigMapKey(call.comp)] \in { ConfigMap(data) : data \in EditedConfigData }
    /\ call.first.pre.store[ConfigMapKey(call.comp)] # DefaultConfigMap
    /\ store[ConfigMapKey(call.comp)] = DefaultConfigMap

\* C14: when a reconcile with the component desired disabled follows another and none of the
\* records a cleanup addresses is in the store, the call issues the four deletes of the full
\* cleanup, each of them hits not-found, the call returns no error and leaves the store as it
\* found it; with the same Options it leaves the ComponentState as the previous call left it too.
C14_RepeatedDisableIsNoOp ==
    (/\ IsSecondCall /\ ~FirstDesiredEnabled /\ ~DesiredEnabled
     /\ \A k \in CleanupKeys(call.comp) : call.pre.store[k] = NotFound) =>
        /\ OpsOf(call.trace) = FullCleanupOps(call.comp, call.pre.state.Namespace)
        /\ \A i \in 1..Len(call.trace) : call.trace[i].res = "notfound"
        /\ ~call.err
        /\ store = call.pre.store
        /\ call.opts = call.first.opts => state[call.comp] = call.pre.state

\* C14 witness: the first disabled call deleted records that were there, and the second one, with
\* the same Options, found none of them.
C14_Witness ==
    /\ IsSecondCall /\ ~FirstDesiredEnabled /\ ~DesiredEnabled
    /\ call.opts = call.first.opts
    /\ \A k \in CleanupKeys(call.comp) : call.pre.store[k] = NotFound
    /\ \E i \in 1..Len(call.first.trace) : call.first.trace[i].res = "ok"
    /\ Len(call.trace) = 4
    /\ \A i \in 1..Len(call.trace) : call.trace[i].res = "notfound"

\* the trace entries issued by a cleanup of comp's records, in the order they were issued
CleanupIndices(comp) ==
    { i \in 1..Len(call.trace) :
        /\ call.trace[i].site.fn \in CleanupFns
        /\ call.trace[i].key \in CleanupKeys(comp) \cup (IF comp = ComponentTypeNamespace THEN PolicyKeys ELSE {}) }
CleanupDeletes(comp) == { call.trace[i].key : i \in CleanupIndices(comp) }

\* the records a cleanup has to address
AddonCleanupSet(comp, ns, bindingUpdated) ==
    { AddonKey(comp), TemplateKey(comp), PlacementKey(comp, ns) }
        \cup (IF bindingUpdated THEN {} ELSE { ConfigMapKey(comp) })
PolicyCleanupSet(ns, bindingUpdated) ==
    PolicyKeysIn(ns) \cup (IF bindingUpdated THEN {} ELSE { ConfigMapKey(ComponentTypeNamespace) })

\* every record of the set was addressed by one delete of the cleanup, and by one only
AllAttempted(comp, set) ==
    /\ CleanupDeletes(comp) = set
    /\ Cardinality(CleanupIndices(comp)) = Cardinality(set)
    /\ \A i \in CleanupIndices(comp) : call.trace[i].op = "Delete"

\* C15: whatever deletes of a cleanup fail or hit not-found, the cleanup addresses every record
\* of its set (addon, template, placement and configuration record in the addon variant; placement
\* binding, placement, policy and configuration record in the policy variant; the configuration
\* record left out on a rebind) and gives no error to its caller: the per-component wrapper goes
\* on to the dashboards, an enabled reconcile goes on to fetch the configuration record, and a
\* disabled reconcile returns no error and leaves state.Enabled = false.
C15_CleanupIsBestEffort ==
    /\ (Reconciled /\ ~DesiredEnabled) =>
          /\ AllAttempted(call.comp, AddonCleanupSet(call.comp, call.pre.state.Namespace, FALSE))
          /\ ~call.err
          /\ ~state[call.comp].Enabled
    /\ (Reconciled /\ DesiredEnabled /\ CleanupIndices(call.comp) # {}) =>
          /\ AllAttempted(call.comp, AddonCleanupSet(call.comp, call.pre.state.Namespace, TRUE))
          /\ \E i \in 1..Len(call.trace) :
                /\ call.trace[i].site = Site("HandleComponentRightSizing", "Get", 0)
                /\ \A j \in CleanupIndices(call.comp) : j < i
    /\ call.fn = "CleanupRSResources" =>
          /\ AllAttempted(call.comp, AddonCleanupSet(call.comp, call.namespace, call.bindingUpdated))
          /\ ~call.err
          /\ \E i \in 1..Len(call.trace) :
                /\ call.trace[i].site.fn = "deleteDashboardFromFile"
                /\ \A j \in CleanupIndices(call.comp) : j < i
    /\ call.fn = "CleanupAllRightSizingResources" =>
          /\ \A comp \in Components :
                AllAttempted(comp, AddonCleanupSet(comp, state[comp].Namespace, FALSE))
          /\ ~call.err
    /\ call.fn = "PolicyCleanupComponentResources" =>
          /\ AllAttempted(call.comp, PolicyCleanupSet(call.namespace, call.bindingUpdated))
          /\ ~call.err

\* C15 witness: a disabled reconcile of an enabled component whose first delete failed and whose
\* third delete hit not-found went on to delete the template and the configuration record.
C15_Witness ==
    /\ Reconciled /\ ~DesiredEnabled /\ call.pre.state.Enabled
    /\ Len(call.trace) = 4
    /\ call.trace[1].res = "error"
    /\ call.trace[2].res = "ok"
    /\ call.trace[3].res \in { "notfound", "error" }
    /\ call.trace[4].res = "ok"
    /\ ~call.err /\ ~state[call.comp].Enabled

\* the stage of a cleanup a record belongs to
CleanupRank(key) ==
    CASE key.kind \in { "ClusterManagementAddOn", "AddOnTemplate", "PlacementBinding" } -> 1
      [] key.kind = "Placement" -> 2
      [] key.kind = "Policy" -> 3
      [] key.kind = "ConfigMap" -> 4

\* the cleanup in the call is a soft one: the rebind cleanup of an enabled reconcile, or a cleanup
\* called with bindingUpdated
IsSoftCleanup ==
    \/ Reconciled /\ DesiredEnabled
    \/ call.fn \in { "CleanupRSResources", "PolicyCleanupComponentResources" } /\ call.bindingUpdated

UpsertFns == { "createOrUpdateAddOnTemplate", "createOrUpdatePlacement", "createOrUpdateClusterManagementAddOn" }
UpsertGets(fn) == { i \in 1..Len(call.trace) : call.trace[i].site = Site(fn, "Get", 0) }
UpsertWrites(fn) == { i \in 1..Len(call.trace) : call.trace[i].site = Site(fn, "Write", 0) }

\* the writes of the upsert function are the one entry after its fetch g, which is op on the
\* record that was fetched
OneWriteAfter(fn, g, op) ==
    /\ UpsertWrites(fn) = { g + 1 }
    /\ call.trace[g + 1].op = op
    /\ call.trace[g + 1].key = call.trace[g].key

\* C17: in every call, each of the three upsert functions fetches at most once and writes only
\* after its fetch: when the fetch reports not-found, its only write is one Create of the record
\* with the fetched name and namespace; when the fetch succeeds, its only write is one Update of
\* that record; when the fetch fails otherwise, it writes nothing, no store operation follows and
\* the call returns an error. A failed write makes the call return an error too.
C17_UpsertIsFetchThenWrite ==
    \A fn \in UpsertFns :
        /\ Cardinality(UpsertGets(fn)) <= 1
        /\ UpsertWrites(fn) # {} => UpsertGets(fn) # {}
        /\ \A g \in UpsertGets(fn) :
              /\ call.trace[g].op = "Get"
              /\ call.trace[g].res = "notfound" => OneWriteAfter(fn, g, "Create")
              /\ call.trace[g].res = "ok" => OneWriteAfter(fn, g, "Update")
              /\ call.trace[g].res = "error" =>
                    /\ UpsertWrites(fn) = {}
                    /\ g = Len(call.trace)
                    /\ call.err
        /\ \A w \in UpsertWrites(fn) : call.trace[w].res # "ok" => call.err /\ w = Len(call.trace)

\* C17 witness: one reconcile created the template, which its fetch did not find, and updated the
\* addon, which its fetch found (the addon had survived a failed delete).
C17_Witness ==
    /\ Reconciled /\ ~call.err
    /\ \E g \in UpsertGets("createOrUpdateAddOnTemplate") :
          /\ call.trace[g].res = "notfound"
          /\ call.trace[g + 1].op = "Create" /\ call.trace[g + 1].res = "ok"
    /\ \E g \in UpsertGets("createOrUpdateClusterManagementAddOn") :
          /\ call.trace[g].res = "ok"
          /\ call.trace[g + 1].op = "Update" /\ call.trace[g + 1].res = "ok"

\* a fetch of an upsert function failed, and nothing was written by it
UpsertFetchFailed ==
    /\ Reconciled /\ call.err
    /\ \E g \in UpsertGets("createOrUpdatePlacement") : call.trace[g].res = "error"

\* the template record of the called component before and after the call
PreTemplate == call.pre.store[TemplateKey(call.comp)]
PostTemplate == store[TemplateKey(call.comp)]

\* the call wrote the template
TemplateWritten ==
    \E w \in UpsertWrites("createOrUpdateAddOnTemplate") : call.trace[w].res = "ok"

\* the rule document generated from the configuration record as the call left it, serialized
GeneratedDocument ==
    MarshalPrometheusRule(
        GeneratePrometheusRule(call.comp, GetRSConfigData(store[ConfigMapKey(call.comp)]).val).val)

SameDocumentSameHash ==
    /\ IsSecondCall /\ ~call.err /\ TemplateWritten
    /\ PreTemplate # NotFound
    /\ PreTemplate.Spec.Manifest = PostTemplate.Spec.Manifest
    /\ PreTemplate.Annotations.SpecHash = PostTemplate.Annotations.SpecHash

\* C19: the records a reconcile of one component reads or writes are records of that component,
\* no record belongs to both components, and a reconcile touches its own ComponentState only; so
\* in every interleaving of the store operations of a namespace reconcile and a virtualization
\* reconcile each operation sees the record it would see with no other reconcile running, and
\* when both are finished the store, both ComponentStates and both results are those of running
\* the two reconciles one after the other, in either order.
C19_ComponentsAreIndependent ==
    call.fn = "Interleaved" =>
        /\ ComponentKeys(ComponentTypeNamespace) \cap ComponentKeys(ComponentTypeVirtualization) = {}
        /\ \A comp \in Components : call.run[comp].begun =>
              \A i \in 1..Len(call.run[comp].trace) :
                  IsStoreOp(call.run[comp].trace[i]) => call.run[comp].trace[i].key \in ComponentKeys(comp)
        /\ \A comp \in Components : ~call.run[comp].begun => state[comp] = call.start.state[comp]
        /\ ~call.diverged
        /\ BothFinished =>
              /\ Interleaved = Sequential(ComponentTypeNamespace, ComponentTypeVirtualization)
              /\ Interleaved = Sequential(ComponentTypeVirtualization, ComponentTypeNamespace)

\* C19 witness: both reconciles are finished, each has written records, and the virtualization
\* reconcile began after the first store operation of the namespace one and before its last.
C19_Witness ==
    /\ BothFinished
    /\ \A comp \in Components :
          \E i \in 1..Len(call.run[comp].trace) :
              call.run[comp].trace[i].op \in { "Create", "Update", "Delete" } /\ call.run[comp].trace[i].res = "ok"
    /\ call.run[ComponentTypeVirtualization].view # call.start.store
    /\ \E k \in ComponentKeys(ComponentTypeNamespace) :
          call.run[ComponentTypeVirtualization].view[k] # call.start.store[k]
    /\ \E k \in ComponentKeys(ComponentTypeNamespace) :
          call.run[ComponentTypeVirtualization].view[k] # store[k]

\* the ComponentState a reconcile of a known component type leaves: HandleComponentRightSizing
\* writes it before the apply callback runs (enabled) or after the cleanup (disabled)
StateWrittenByHandler ==
    ComponentState(Resolved, DesiredEnabled)

\* C20: every ComponentState starts as (Enabled=false, Namespace=default namespace), and a step
\* changes a ComponentState only if it is a HandleComponentRightSizing call, which changes the
\* state of the called component only and leaves there the value the handler itself wrote, so
\* the apply callback and the cleanup inside the call changed nothing; the per-component cleanup
\* wrappers, CleanupAllRightSizingResources and CleanupComponentResources called on its own leave
\* every ComponentState as it was.
C20_StateWrittenOnlyByHandler ==
    /\ \A comp \in Components : state[comp] = ComponentState(DefaultNamespace, FALSE)
    /\ [][ /\ state' # state => call'.fn = "HandleComponentRightSizing"
           /\ call'.fn = "HandleComponentRightSizing" =>
                 /\ \A comp \in Components \ { call'.comp } : state'[comp] = state[comp]
                 /\ state'[call'.comp] = StateWrittenByHandler'
         ]_vars

\* C20 witness: CleanupAllRightSizingResources deleted records of an enabled component, whose
\* ComponentState still says enabled.
C20_Witness ==
    /\ call.fn = "CleanupAllRightSizingResources"
    /\ \E i \in 1..Len(call.trace) : call.trace[i].op = "Delete" /\ call.trace[i].res = "ok"
    /\ store[ConfigMapKey(call.comp)] = NotFound
    /\ state[call.comp].Enabled
    /\ state[call.comp] = call.pre.state

-----------------------------------------------------------------------------
(* Properties of the rule builders *)

\* a filter that has both inclusion and exclusion criteria
HasBoth(filter) == Len(filter.InclusionCriteria) > 0 /\ Len(filter.ExclusionCriteria) > 0
HasNeither(filter) == Len(filter.InclusionCriteria) = 0 /\ Len(filter.ExclusionCriteria) = 0
IsLabelEnv(l) == l.LabelName = "label_env"
IsOtherLabel(l) == l.LabelName # "label_env"

\* the entries named label_env, in their order
LabelEnvEntries(labelFilters) == SelectSeq(labelFilters, IsLabelEnv)

SomeLabelEnvHasBoth(labelFilters) ==
    \E i \in 1..Len(labelFilters) : IsLabelEnv(labelFilters[i]) /\ HasBoth(labelFilters[i])

FirstLabelEnvHasBoth(labelFilters) ==
    /\ Len(LabelEnvEntries(labelFilters)) > 0
    /\ HasBoth(Head(LabelEnvEntries(labelFilters)))

IsGenerate == call.fn = "GeneratePrometheusRule"
IsApply == call.fn = "ApplyChangesFunc"

\* the rule configuration a generator or an apply callback was called with
CalledRuleConfig == call.arg.PrometheusRuleConfig

\* the call failed without a document, and the callback touched no object
Rejected ==
    IF IsGenerate
    THEN /\ call.res.err
         /\ call.res.val = EmptyPrometheusRule
         /\ call.comp = ComponentTypeVirtualization => call.groups = << >>
    ELSE /\ call.err
         /\ store = call.pre
         /\ \A i \in 1..Len(call.trace) : ~IsStoreOp(call.trace[i])

C22_FirstLabelEnvDecides ==
    call.fn = "BuildLabelJoin" =>
        LET env == LabelEnvEntries(call.arg)
        IN  IF Len(env) = 0 \/ HasNeither(Head(env))
            THEN call.res = [ err |-> FALSE, val |-> "" ]
            ELSE IF HasBoth(Head(env)) THEN call.res.err
            ELSE ~call.res.err /\ call.res.val # ""

\* the configuration with the entries of another label name taken out of labelFilterCriteria
WithoutOtherLabels(configData) ==
    [ configData EXCEPT !.PrometheusRuleConfig.LabelFilterCriteria = LabelEnvEntries(@) ]

\* C23: entries whose labelName is not label_env are inert: BuildLabelJoin returns for a list
\* what it returns for the list's label_env entries alone, value and error, and the generator
\* returns the same document; two lists that differ by inserted, removed or reordered entries
\* of another label name have the same label_env entries and so the same result
C23_OtherLabelsAreInert ==
    /\ call.fn = "BuildLabelJoin" => call.res = BuildLabelJoin(LabelEnvEntries(call.arg))
    /\ IsGenerate => call.res = GeneratePrometheusRule(call.comp, WithoutOtherLabels(call.arg))
    /\ IsGenerate /\ call.comp = ComponentTypeVirtualization =>
         call.groups = ReturnedGroups(WithoutOtherLabels(call.arg),
                                      GeneratePrometheusRule(call.comp, WithoutOtherLabels(call.arg)))

C23_Witness ==
    /\ call.fn = "BuildLabelJoin"
    /\ Len(call.arg) = 3
    /\ IsOtherLabel(call.arg[1]) /\ HasBoth(call.arg[1])
    /\ IsLabelEnv(call.arg[2]) /\ Len(call.arg[2].InclusionCriteria) > 0
    /\ IsOtherLabel(call.arg[3]) /\ Len(call.arg[3].ExclusionCriteria) > 0
    /\ ~call.res.err
    /\ call.res.val # ""

\* the namespace selector the claim states for a namespace filter without a conflict
StatedNamespaceFilter(ns) ==
    IF Len(ns.InclusionCriteria) > 0 THEN "namespace=~\"" \o Join(ns.InclusionCriteria, "|") \o "\""
    ELSE IF Len(ns.ExclusionCriteria) > 0 THEN "namespace!~\"" \o Join(ns.ExclusionCriteria, "|") \o "\""
    ELSE "namespace!=\"\""

\* C24: BuildNamespaceFilter returns namespace=~"<entries joined by |>" for inclusion criteria
\* alone, namespace!~"<entries joined by |>" for exclusion criteria alone and namespace!="" for
\* neither; the entries stand in their given order, unescaped and with their repetitions
C24_NamespaceFilterText ==
    /\ call.fn = "BuildNamespaceFilter" =>
         LET ns == call.arg.NamespaceFilterCriteria
         IN  /\ ~HasBoth(ns) => call.res = [ err |-> FALSE, val |-> StatedNamespaceFilter(ns) ]
             /\ ns.InclusionCriteria = << "prod.*", "dev", "prod.*" >> /\ ns.ExclusionCriteria = << >>
                  => call.res.val = "namespace=~\"prod.*|dev|prod.*\""
             /\ ns.InclusionCriteria = << >> /\ ns.ExclusionCriteria = << "openshift.*", "kube.*" >>
                  => call.res.val = "namespace!~\"openshift.*|kube.*\""
             /\ HasNeither(ns) => call.res.val = "namespace!=\"\""
    /\ IsGenerate /\ ~call.res.err =>
         call.res.val.NsFilter = StatedNamespaceFilter(CalledRuleConfig.NamespaceFilterCriteria)

C24_Witness ==
    /\ call.fn = "BuildNamespaceFilter"
    /\ call.arg.NamespaceFilterCriteria.InclusionCriteria = << "prod.*", "dev", "prod.*" >>
    /\ call.arg.NamespaceFilterCriteria.ExclusionCriteria = << >>
    /\ call.res = [ err |-> FALSE, val |-> "namespace=~\"prod.*|dev|prod.*\"" ]

\* the parts of a join clause, in the order they stand in it
JoinOperator == "* on (namespace) group_left() ("
LabelFallback == "kube_namespace_labels{label_env=\"\"}"
LabelSelector(l) ==
    IF Len(l.InclusionCriteria) > 0
    THEN "kube_namespace_labels{label_env=~\"" \o Join(l.InclusionCriteria, "|") \o "\"}"
    ELSE "kube_namespace_labels{label_env!~\"" \o Join(l.ExclusionCriteria, "|") \o "\"}"
StatedLabelJoin(l) == JoinOperator \o LabelSelector(l) \o " or " \o LabelFallback \o ")"

\* the first entry named label_env has exactly one of the two criteria
FirstLabelEnvHasOne(labelFilters) ==
    /\ Len(LabelEnvEntries(labelFilters)) > 0
    /\ ~HasBoth(Head(LabelEnvEntries(labelFilters)))
    /\ ~HasNeither(Head(LabelEnvEntries(labelFilters)))

\* C25: the join clause of a label_env entry with inclusion criteria selects
\* label_env=~"<entries joined by |>", that of an entry with exclusion criteria selects
\* label_env!~"<entries joined by |>"; either is joined by on (namespace) group_left() and has
\* the alternative label_env="" for the namespaces without the label
C25_LabelJoinText ==
    /\ call.fn = "BuildLabelJoin" /\ FirstLabelEnvHasOne(call.arg) =>
         LET l == Head(LabelEnvEntries(call.arg))
         IN  /\ call.res = [ err |-> FALSE, val |-> StatedLabelJoin(l) ]
             /\ l.InclusionCriteria = << "prod", "staging" >> =>
                  call.res.val = "* on (namespace) group_left() (kube_namespace_labels{label_env=~\"prod|staging\"} or kube_namespace_labels{label_env=\"\"})"
             /\ l.ExclusionCriteria = << "dev", "test" >> =>
                  call.res.val = "* on (namespace) group_left() (kube_namespace_labels{label_env!~\"dev|test\"} or kube_namespace_labels{label_env=\"\"})"
    /\ IsGenerate /\ ~call.res.err /\ FirstLabelEnvHasOne(CalledRuleConfig.LabelFilterCriteria) =>
         call.res.val.LabelJoin = StatedLabelJoin(Head(LabelEnvEntries(CalledRuleConfig.LabelFilterCriteria)))

C25_Witness ==
    /\ call.fn = "BuildLabelJoin"
    /\ Len(call.arg) = 2
    /\ IsOtherLabel(call.arg[1])
    /\ IsLabelEnv(call.arg[2])
    /\ call.arg[2].ExclusionCriteria = << "dev", "test" >>
    /\ call.arg[2].InclusionCriteria = << >>
    /\ call.res.val = "* on (namespace) group_left() (kube_namespace_labels{label_env!~\"dev|test\"} or kube_namespace_labels{label_env=\"\"})"

\* a virtualization GeneratePrometheusRule call that returned a document
IsGenerated == IsGenerate /\ call.comp = ComponentTypeVirtualization /\ ~call.res.err

\* the group names and, per group, the record names of a list of groups
GroupNames(groups) == [ g \in 1..Len(groups) |-> groups[g].Name ]
RecordNames(groups) ==
    [ g \in 1..Len(groups) |-> [ r \in 1..Len(groups[g].Rules) |-> groups[g].Rules[r].Record ] ]

\* the groups generated from the default configuration
DefaultGroups ==
    ReturnedGroups(RSConfigMapData(GetDefaultRSPrometheusRuleConfig),
                   GeneratePrometheusRule(ComponentTypeVirtualization,
                                          RSConfigMapData(GetDefaultRSPrometheusRuleConfig)))

\* C26: a document generated from a valid configuration has exactly four groups, in the order
\* namespace-5m, namespace-1d, cluster-5m, cluster-1d; the document name, the group names and
\* the record names are those of every other valid configuration, whatever the filter criteria
\* and the recommendation percentage
C26_FourGroupsWithConstantNames ==
    /\ IsGenerate /\ ~call.res.err =>
         call.res.val.Name = IF call.comp = ComponentTypeNamespace
                             THEN "acm-rs-namespace-prometheus-rules"
                             ELSE "acm-rs-virt-prometheus-rules"
    /\ IsGenerated =>
         /\ Len(call.groups) = 4
         /\ GroupNames(call.groups) = << "acm-vm-right-sizing-namespace-5m.rule",
                                         "acm-vm-right-sizing-namespace-1d.rules",
                                         "acm-vm-right-sizing-cluster-5m.rule",
                                         "acm-vm-right-sizing-cluster-1d.rule" >>
         /\ RecordNames(call.groups) = RecordNames(DefaultGroups)

C26_Witness ==
    /\ IsGenerated
    /\ CalledRuleConfig.NamespaceFilterCriteria.InclusionCriteria = << "prod.*", "dev", "prod.*" >>
    /\ call.res.val.LabelJoin # ""
    /\ CalledRuleConfig.RecommendationPercentage = 120
    /\ Len(call.groups) = 4
    /\ call.groups[4].Name = "acm-vm-right-sizing-cluster-1d.rule"

\* C27: in the virtualization variant each 5-minute group has exactly 4 records and each 1-day
\* group exactly 6, for every valid configuration; the namespace 5-minute group lists
\* cpu_request, memory_request, cpu_usage, memory_usage and the cluster 5-minute group lists
\* cpu_request, cpu_usage, memory_request, memory_usage, in these orders
C27_RecordCountsAndOrder ==
    IsGenerated =>
        /\ Len(call.groups[1].Rules) = 4
        /\ Len(call.groups[2].Rules) = 6
        /\ Len(call.groups[3].Rules) = 4
        /\ Len(call.groups[4].Rules) = 6
        /\ RecordNames(call.groups)[1] = << "acm_rs_vm:namespace:cpu_request:5m",
                                            "acm_rs_vm:namespace:memory_request:5m",
                                            "acm_rs_vm:namespace:cpu_usage:5m",
                                            "acm_rs_vm:namespace:memory_usage:5m" >>
        /\ RecordNames(call.groups)[3] = << "acm_rs_vm:cluster:cpu_request:5m",
                                            "acm_rs_vm:cluster:cpu_usage:5m",
                                            "acm_rs_vm:cluster:memory_request:5m",
                                            "acm_rs_vm:cluster:memory_usage:5m" >>

C27_Witness ==
    /\ IsGenerated
    /\ CalledRuleConfig.NamespaceFilterCriteria.ExclusionCriteria = << "openshift.*", "kube.*" >>
    /\ Len(CalledRuleConfig.LabelFilterCriteria) = MaxLabelFilters
    /\ Len(call.groups[1].Rules) = 4
    /\ Len(call.groups[4].Rules) = 6
    /\ call.groups[3].Rules[2].Record = "acm_rs_vm:cluster:cpu_usage:5m"

\* the record names of the virtualization document, by scope, resource, kind and interval
Scopes == { "namespace", "cluster" }
Resources == { "cpu", "memory" }
FiveMinuteRecord(scope, resource, kind) == "acm_rs_vm:" \o scope \o ":" \o resource \o "_" \o kind \o ":5m"
OneDayRecord(scope, resource, kind) == "acm_rs_vm:" \o scope \o ":" \o resource \o "_" \o kind

\* the records of a list of groups
AllRules(groups) ==
    UNION { { groups[g].Rules[r] : r \in 1..Len(groups[g].Rules) } : g \in 1..Len(groups) }
DefinedRecords(groups) == { r.Record : r \in AllRules(groups) }

\* the record names an expression refers to
References(expr) == { expr[i].text : i \in { j \in 1..Len(expr) : expr[j].kind = "record" } }

\* the records named name refer to exactly the record named referenced, and there is one
RefersOnlyTo(groups, name, referenced) ==
    /\ \E r \in AllRules(groups) : r.Record = name
    /\ \A r \in AllRules(groups) : r.Record = name => References(r.Expr) = { referenced }

RollupsReferenceFiveMinuteRecords(groups) ==
    \A scope \in Scopes, resource \in Resources, kind \in { "request", "usage" } :
        RefersOnlyTo(groups, OneDayRecord(scope, resource, kind), FiveMinuteRecord(scope, resource, kind))

ReferencesAreDefined(groups) ==
    \A r \in AllRules(groups) : References(r.Expr) \subseteq DefinedRecords(groups)

\* C28: in every generated document each 1-day rollup refers by name to the 5-minute record of
\* its scope, resource and kind, each recommendation refers by name to the 1-day usage rollup of
\* its scope and resource, and every record name referred to is defined in the document
C28_ReferenceChaining ==
    IsGenerated =>
        /\ RollupsReferenceFiveMinuteRecords(call.groups)
        /\ \A scope \in Scopes, resource \in Resources :
               RefersOnlyTo(call.groups, OneDayRecord(scope, resource, "recommendation"),
                            OneDayRecord(scope, resource, "usage"))
        /\ ReferencesAreDefined(call.groups)

\* the records of the 5-minute groups and of the 1-day groups of a document
FiveMinuteRules(groups) == AllRules(<< groups[1], groups[3] >>)
OneDayRules(groups) == AllRules(<< groups[2], groups[4] >>)

\* the texts of the parts of one kind in an expression
PartsOf(expr, kind) == { expr[i].text : i \in { j \in 1..Len(expr) : expr[j].kind = kind } }

\* the expression ends with the label join, set off by a blank
EndsWithLabelJoin(expr, labelJoin) ==
    /\ Len(expr) > 2
    /\ expr[Len(expr)] = Part("labelJoin", labelJoin)
    /\ ExprString(expr) = ExprString(SubSeq(expr, 1, Len(expr) - 2)) \o " " \o labelJoin

\* C29: every 5-minute record's expression carries the namespace selector, and the label join
\* whenever one is generated; no 1-day rollup or recommendation carries either; every 1-day
\* record has exactly the labels profile="Max OverAll" and aggregation="1d", and no 5-minute
\* record has labels
C29_SelectorsAndLabels ==
    IsGenerated =>
        /\ \A r \in FiveMinuteRules(call.groups) :
             /\ PartsOf(r.Expr, "nsFilter") = { call.res.val.NsFilter }
             /\ IF call.res.val.LabelJoin # ""
                THEN EndsWithLabelJoin(r.Expr, call.res.val.LabelJoin)
                ELSE PartsOf(r.Expr, "labelJoin") = { }
             /\ r.Labels = { }
        /\ \A r \in OneDayRules(call.groups) :
             /\ PartsOf(r.Expr, "nsFilter") = { }
             /\ PartsOf(r.Expr, "labelJoin") = { }
             /\ r.Labels = { << "profile", "Max OverAll" >>, << "aggregation", "1d" >> }

C29_Witness ==
    /\ IsGenerated
    /\ call.res.val.NsFilter = "namespace!~\"openshift.*|kube.*\""
    /\ call.res.val.LabelJoin = "* on (namespace) group_left() (kube_namespace_labels{label_env=~\"prod|staging\"} or kube_namespace_labels{label_env=\"\"})"
    /\ ExprString(call.groups[3].Rules[3].Expr)
         = "max_over_time(sum (" \o Indent \o "  kubevirt_vm_resource_requests{namespace!~\"openshift.*|kube.*\", resource=\"memory\"}"
           \o Indent \o ") by (cluster)[5m:]) * on (namespace) group_left() (kube_namespace_labels{label_env=~\"prod|staging\"} or kube_namespace_labels{label_env=\"\"})"
    /\ Cardinality(call.groups[2].Rules[5].Labels) = 2

\* the decimal text of the enumerated percentages
Decimal(p) == CASE p = 0 -> "0" [] p = 110 -> "110" [] p = 120 -> "120"

IsRecommendation(r) ==
    \E scope \in Scopes, resource \in Resources : r.Record = OneDayRecord(scope, resource, "recommendation")

\* the records of a document other than the recommendations
OtherRules(groups) == { r \in AllRules(groups) : ~IsRecommendation(r) }

\* the groups generated from the called configuration with another percentage
GroupsWithPercentage(p) ==
    ReturnedGroups([ call.arg EXCEPT !.PrometheusRuleConfig.RecommendationPercentage = p ], call.res)

\* C30: for every recommendation percentage P each of the four recommendation records
\* multiplies the 1-day maximum of the usage by the text (P/100), P standing in it digit for
\* digit; the generator computes nothing from P, and no other record changes with P
C30_PercentageIsCopied ==
    IsGenerated =>
        LET P == CalledRuleConfig.RecommendationPercentage
        IN  /\ \A scope \in Scopes, resource \in Resources :
                 \E r \in OneDayRules(call.groups) :
                     /\ r.Record = OneDayRecord(scope, resource, "recommendation")
                     /\ PartsOf(r.Expr, "percentage") = { Decimal(P) }
                     /\ ExprString(r.Expr)
                          = "max_over_time(" \o FiveMinuteRecord(scope, resource, "usage") \o "[1d])"
                            \o (IF scope = "namespace" THEN "*" ELSE " * ")
                            \o "(" \o Decimal(P) \o "/100)"
            /\ P = 110 =>
                 ExprString(call.groups[2].Rules[5].Expr)
                     = "max_over_time(acm_rs_vm:namespace:cpu_usage:5m[1d])*(110/100)"
            /\ \A r \in OtherRules(call.groups) : PartsOf(r.Expr, "percentage") = { }
            /\ \A p \in Percentages : OtherRules(GroupsWithPercentage(p)) = OtherRules(call.groups)

C30_Witness ==
    /\ IsGenerated
    /\ CalledRuleConfig.RecommendationPercentage = 120
    /\ call.res.val.LabelJoin # ""
    /\ ExprString(call.groups[4].Rules[6].Expr)
         = "max_over_time(acm_rs_vm:cluster:memory_usage:5m[1d]) * (120/100)"
    /\ ExprString(call.groups[2].Rules[6].Expr)
         = "max_over_time(acm_rs_vm:namespace:memory_usage:5m[1d])*(120/100)"

\* C31: a rule configuration whose recommendationPercentage is unset (the zero value) yields
\* the recommendation expressions of the default percentage 110, those of the configuration
\* GetDefaultRSPrometheusRuleConfig produces
C31_UnsetPercentageDefaults ==
    IsGenerated /\ CalledRuleConfig.RecommendationPercentage = 0 =>
        /\ call.groups = GroupsWithPercentage(GetDefaultRSPrometheusRuleConfig.RecommendationPercentage)
        /\ ExprString(call.groups[2].Rules[5].Expr)
             = "max_over_time(acm_rs_vm:namespace:cpu_usage:5m[1d])*(110/100)"

\* C32: EnableRightSizing returns nil exactly when NamespaceEnabled and VirtualizationEnabled
\* are both false, which is when IsRightSizingEnabled is false; otherwise the four fields of
\* the values equal the four option fields, the binding of a disabled component included
C32_ValuesMirrorOptions ==
    call.fn = "EnableRightSizing" =>
        /\ (call.res = NilValues) <=> (~call.arg.NamespaceEnabled /\ ~call.arg.VirtualizationEnabled)
        /\ (call.res = NilValues) <=> ~call.enabled
        /\ call.res # NilValues =>
             /\ DOMAIN call.res = { "NamespaceEnabled", "NamespaceBinding",
                                    "VirtualizationEnabled", "VirtualizationBinding" }
             /\ call.res.NamespaceEnabled = call.arg.NamespaceEnabled
             /\ call.res.NamespaceBinding = call.arg.NamespaceBinding
             /\ call.res.VirtualizationEnabled = call.arg.VirtualizationEnabled
             /\ call.res.VirtualizationBinding = call.arg.VirtualizationBinding

C32_Witness ==
    /\ call.fn = "EnableRightSizing"
    /\ call.arg.NamespaceEnabled /\ ~call.arg.VirtualizationEnabled
    /\ call.arg.VirtualizationBinding = "ns-a"
    /\ call.res # NilValues
    /\ call.res.VirtualizationBinding = "ns-a"
    /\ call.enabled

-----------------------------------------------------------------------------
(* Properties of the reconcile: binding, integrity, teardown *)

\* the trace entries of the apply callback's own call record
CallbackCalls == { i \in 1..Len(call.trace) : call.trace[i].res = "called" }

\* the store operations the apply issued on a placement record
PlacementOps ==
    { i \in 1..Len(call.trace) : call.trace[i].site.fn = "createOrUpdatePlacement" }

\* C33: in an enabled reconcile state.Namespace is the resolved binding by the time the apply
\* callback runs: the callback is handed the resolved binding, every placement operation of the
\* apply addresses the placement in the resolved binding and none the previous binding, and an
\* addon the apply wrote references the placement in the resolved binding
C33_ApplySeesResolvedBinding ==
    (Reconciled /\ DesiredEnabled) =>
        /\ state[call.comp].Namespace = Resolved
        /\ \A i \in CallbackCalls : call.trace[i].key.namespace = Resolved
        /\ \A i \in PlacementOps : call.trace[i].key = PlacementKey(call.comp, Resolved)
        /\ \A i \in 1..Len(call.trace) :
             ( /\ call.trace[i].site.fn = "createOrUpdateClusterManagementAddOn"
               /\ call.trace[i].op \in { "Create", "Update" }
               /\ call.trace[i].res = "ok" )
             => store[AddonKey(call.comp)].Spec.PlacementRef
                    = [ Name |-> PlacementName(call.comp), Namespace |-> Resolved ]

C33_Witness ==
    /\ Reconciled /\ DesiredEnabled /\ IsRebind
    /\ CallbackCalls # { }
    /\ \E i \in PlacementOps : call.trace[i].op = "Create" /\ call.trace[i].res = "ok"
    /\ call.pre.store[AddonKey(call.comp)] # NotFound
    /\ call.pre.store[AddonKey(call.comp)].Spec.PlacementRef.Namespace = call.pre.state.Namespace
    /\ store[AddonKey(call.comp)].Spec.PlacementRef.Namespace = Resolved
    /\ Resolved # call.pre.state.Namespace

RECURSIVE StoreAfter(_)
\* the store after the first k entries of the call's trace, from the store the call found
StoreAfter(k) ==
    IF k = 0 THEN call.pre.store
    ELSE Effect([ result |-> store ], call.trace[k], StoreAfter(k - 1))

\* the addon record of comp, when there is one, names a template that exists and references a
\* placement that exists
Integrity(s, comp) ==
    s[AddonKey(comp)] # NotFound =>
        /\ s[Key("AddOnTemplate", s[AddonKey(comp)].Spec.DefaultConfig, "")] # NotFound
        /\ s[Key("Placement", s[AddonKey(comp)].Spec.PlacementRef.Name,
                 s[AddonKey(comp)].Spec.PlacementRef.Namespace)] # NotFound

NoDeleteFailed == \A i \in ErrorIndices : call.trace[i].op # "Delete"

\* the place of a record kind in the order of the apply's writes and of the cleanup's deletes
ApplyRank(fn) ==
    CASE fn = "createOrUpdateAddOnTemplate" -> 1
      [] fn = "createOrUpdatePlacement" -> 2
      [] fn = "createOrUpdateClusterManagementAddOn" -> 3
DeleteRank(kind) ==
    CASE kind = "ClusterManagementAddOn" -> 1 [] kind = "AddOnTemplate" -> 2 [] kind = "Placement" -> 3
UpsertIndices == IndicesOf(UpsertFns)
AddonDeleteIndices == IndicesOf({ "CleanupRightSizingAddon" })

\* C34: with reconciles one at a time, no other writer and no failing delete, an addon record
\* that exists names an existing template and references an existing placement, in the store
\* after every single store operation of a reconcile as well as at its end: a reconcile that
\* starts from such a store passes through such stores only. The apply writes template,
\* placement, addon in this order and stops at the first failure; the cleanup deletes addon,
\* template, placement in this order
C34_ReferentialIntegrity ==
    Reconciled =>
        /\ (NoDeleteFailed /\ \A comp \in Components : Integrity(call.pre.store, comp)) =>
              \A k \in 0..Len(call.trace) : \A comp \in Components : Integrity(StoreAfter(k), comp)
        /\ StoreAfter(Len(call.trace)) = store
        /\ \A i, j \in UpsertIndices :
              i < j => /\ ApplyRank(call.trace[i].site.fn) <= ApplyRank(call.trace[j].site.fn)
                       /\ call.trace[i].res # "error"
        /\ \A i, j \in AddonDeleteIndices :
              i < j => DeleteRank(call.trace[i].key.kind) < DeleteRank(call.trace[j].key.kind)

C34_Witness ==
    /\ Reconciled /\ DesiredEnabled /\ IsRebind /\ ~call.err /\ ErrorIndices = { }
    /\ Integrity(call.pre.store, call.comp)
    /\ call.pre.store[AddonKey(call.comp)] # NotFound
    /\ \E k \in 1..Len(call.trace) :
          /\ StoreAfter(k)[AddonKey(call.comp)] = NotFound
          /\ StoreAfter(k)[PlacementKey(call.comp, call.pre.state.Namespace)] # NotFound
    /\ \E k \in 1..Len(call.trace) :
          /\ StoreAfter(k)[AddonKey(call.comp)] = NotFound
          /\ StoreAfter(k)[PlacementKey(call.comp, Resolved)] # NotFound
    /\ store[AddonKey(call.comp)] # NotFound

\* the successful writes of the template in the call, by operation
TemplateWrites(op) ==
    { w \in UpsertWrites("createOrUpdateAddOnTemplate") :
        call.trace[w].op = op /\ call.trace[w].res = "ok" }

\* C35: in every store any sequence of reconciles and edits of the configuration record leads
\* to, a template record carries as spec-hash annotation the hash of the manifest stored in that
\* same record; the template createOrUpdateAddOnTemplate has just created, and the one it has
\* just updated, carries the hash of the manifest it was written with
C35_StoredHashMatchesStoredManifest ==
    /\ \A comp \in Components :
          store[TemplateKey(comp)] # NotFound =>
              store[TemplateKey(comp)].Annotations.SpecHash
                  = calculateSpecHash(store[TemplateKey(comp)].Spec.Manifest)
    /\ Reconciled =>
          \A w \in TemplateWrites("Create") \cup TemplateWrites("Update") :
              /\ call.trace[w].key = TemplateKey(call.comp)
              /\ StoreAfter(w)[TemplateKey(call.comp)].Annotations.SpecHash
                    = calculateSpecHash(StoreAfter(w)[TemplateKey(call.comp)].Spec.Manifest)

C35_Witness ==
    /\ Reconciled /\ TemplateWrites("Update") # { }
    /\ PreTemplate # NotFound
    /\ PreTemplate.Spec.Manifest # PostTemplate.Spec.Manifest
    /\ PreTemplate.Annotations.SpecHash = calculateSpecHash(PreTemplate.Spec.Manifest)
    /\ PostTemplate.Annotations.SpecHash = calculateSpecHash(PostTemplate.Spec.Manifest)
    /\ call.err

\* the records the first of the two calls created or updated
FirstWritten ==
    { call.first.trace[i].key :
        i \in { j \in 1..Len(call.first.trace) :
                  /\ call.first.trace[j].op \in { "Create", "Update" }
                  /\ call.first.trace[j].res = "ok" } }

\* a successful enabled reconcile followed by a reconcile with the component desired disabled
DisabledAfterEnabled ==
    /\ IsSecondCall /\ ~DesiredEnabled
    /\ FirstDesiredEnabled /\ ~call.first.err /\ ~FirstHadStoreError
    /\ ErrorIndices = { }

\* C36: every record a successful enabled reconcile created or updated (the configuration
\* record, the template, the placement, the addon and the dashboard records of the apply) is
\* absent after a following reconcile with the component desired disabled whose deletes succeed
C36_DisableRemovesWhatEnableWrote ==
    DisabledAfterEnabled => \A key \in FirstWritten : store[key] = NotFound

-----------------------------------------------------------------------------
(* Teardown under repeated reconciles: the component stays desired disabled, the caller
   reconciles again and again, and the deletes of an attempt may fail *)

\* the component is enabled and bound to a namespace, with the records of its first enable
InitTeardown ==
    /\ driven \in { { comp } : comp \in Components }
    /\ call = NoCall
    /\ \E comp \in driven, binding \in BindingOptions :
          /\ state = [ c \in Components |->
                          IF c = comp THEN FirstEnable(comp, binding).state
                          ELSE ComponentState(DefaultNamespace, FALSE) ]
          /\ store = FirstEnable(comp, binding).cx.store

\* one reconcile of comp desired disabled, in which the store operations at the sites F fail;
\* the binding option is chosen at the first attempt and kept by the later ones
TeardownAttempt(comp, F) ==
    /\ comp \in driven
    /\ call.fn = "none" \/ call.comp = comp
    /\ \E binding \in (IF call.fn = "none" THEN BindingOptions ELSE { BindingOption }) :
          LET opts == OptionsFor(comp, FALSE, binding)
              Attempt(r) ==
                  /\ state' = [ state EXCEPT ![comp] = r.state ]
                  /\ store' = r.cx.store
                  /\ call' = [ fn |-> "HandleComponentRightSizing", comp |-> comp, ctype |-> comp,
                               opts |-> opts, pre |-> [ state |-> state[comp], store |-> store ],
                               err |-> r.err, trace |-> r.cx.trace,
                               start |-> IF call.fn = "none" THEN [ state |-> state[comp], store |-> store ]
                                         ELSE call.start ]
          IN  Attempt(HandleComponentRightSizing(EmptyClient, opts, ComponentConfig(comp, comp), state[comp], F))
    /\ UNCHANGED driven

\* an attempt in which at least one delete fails
FailingAttempt(comp) ==
    \E F \in FaultSets(comp, FALSE, FALSE) \ { {} } : TeardownAttempt(comp, F)

\* an attempt in which every store operation succeeds
CleanAttempt(comp) == TeardownAttempt(comp, {})

NextTeardown ==
    \/ \E comp \in Components : FailingAttempt(comp)
    \/ \E comp \in Components : CleanAttempt(comp)

\* the caller goes on reconciling, and the store does not fail for ever: an attempt without
\* a failing store operation comes after any number of failing ones
SpecTeardown ==
    InitTeardown /\ [][NextTeardown]_vars /\ \A comp \in Components : WF_vars(CleanAttempt(comp))

-----------------------------------------------------------------------------
(* The entry point of both components: handlers.HandleRightSizing *)

NamespaceFailed == "failed to handle namespace right-sizing"
VirtualizationFailed == "failed to handle virtualization right-sizing"

\* a HandleRightSizing that goes on to the virtualization component after a namespace error
HandlersHandleRightSizing_ContinuesAfterError(cx, opts, st, Fn, Fv) ==
    LET Both(n) ==
            LET Done(v) ==
                    [ cx |-> v.cx,
                      state |-> [ st EXCEPT ![ComponentTypeNamespace] = n.state,
                                            ![ComponentTypeVirtualization] = v.state ],
                      err |-> IF n.err THEN NamespaceFailed ELSE IF v.err THEN VirtualizationFailed ELSE "",
                      namespace |-> n ]
            IN  Done(HandleComponentRightSizing(n.cx, opts,
                        ComponentConfig(ComponentTypeVirtualization, ComponentTypeVirtualization),
                        st[ComponentTypeVirtualization], Fv))
    IN  Both(HandleComponentRightSizing(cx, opts, ComponentConfig(ComponentTypeNamespace, ComponentTypeNamespace),
                                        st[ComponentTypeNamespace], Fn))

\* handlers.HandleRightSizing: st is the ComponentState of each component; Fn and Fv are the
\* failing sites of the namespace and of the virtualization reconcile. The result carries what
\* namespace.HandleRightSizing returned and left
HandlersHandleRightSizing(cx, opts, st, Fn, Fv) ==
    LET Both(n) ==
            LET Done(v) ==
                    [ cx |-> v.cx,
                      state |-> [ st EXCEPT ![ComponentTypeNamespace] = n.state,
                                            ![ComponentTypeVirtualization] = v.state ],
                      err |-> IF v.err THEN VirtualizationFailed ELSE "",
                      namespace |-> n ]
            IN  IF n.err
                THEN [ cx |-> n.cx, state |-> [ st EXCEPT ![ComponentTypeNamespace] = n.state ],
                       err |-> NamespaceFailed, namespace |-> n ]
                ELSE Done(HandleComponentRightSizing(n.cx, opts,
                            ComponentConfig(ComponentTypeVirtualization, ComponentTypeVirtualization),
                            st[ComponentTypeVirtualization], Fv))
    IN  Both(HandleComponentRightSizing(cx, opts, ComponentConfig(ComponentTypeNamespace, ComponentTypeNamespace),
                                        st[ComponentTypeNamespace], Fn))

\* each component is in its initial state, or enabled and bound with the records of its enable
StartOf(comp, start) ==
    IF start = "initial"
    THEN [ state |-> ComponentState(DefaultNamespace, FALSE), store |-> [ k \in AllKeys |-> NotFound ] ]
    ELSE [ state |-> FirstEnable(comp, start).state, store |-> FirstEnable(comp, start).cx.store ]

InitBoth ==
    /\ driven = Components
    /\ call = NoCall
    /\ \E start \in [ Components -> { "initial" } \cup BindingOptions ] :
          /\ state = [ comp \in Components |-> StartOf(comp, start[comp]).state ]
          /\ store = [ k \in AllKeys |->
                          LET comp == CHOOSE c \in Components : k \in ComponentKeys(c)
                          IN  StartOf(comp, start[comp]).store[k] ]

\* one call of handlers.HandleRightSizing, with any Options
CallHandleRightSizing ==
    /\ call.fn = "none"
    /\ \E nsEnabled \in BOOLEAN, nsBinding \in BindingOptions,
          virtEnabled \in BOOLEAN, virtBinding \in BindingOptions :
       \E Fn \in FaultSets(ComponentTypeNamespace, nsEnabled,
                           state[ComponentTypeNamespace].Enabled
                               /\ state[ComponentTypeNamespace].Namespace # ResolvedBinding(nsBinding)),
          Fv \in FaultSets(ComponentTypeVirtualization, virtEnabled,
                           state[ComponentTypeVirtualization].Enabled
                               /\ state[ComponentTypeVirtualization].Namespace # ResolvedBinding(virtBinding)) :
          LET opts == RightSizingOptions(nsEnabled, nsBinding, virtEnabled, virtBinding)
              Returned(r) ==
                  /\ state' = r.state
                  /\ store' = r.cx.store
                  /\ call' = [ fn |-> "HandleRightSizing", comp |-> "", ctype |-> "", opts |-> opts,
                               pre |-> [ state |-> state, store |-> store ],
                               err |-> r.err, trace |-> r.cx.trace,
                               namespace |-> [ err |-> r.namespace.err, state |-> r.namespace.state,
                                               store |-> r.namespace.cx.store,
                                               ops |-> Len(r.namespace.cx.trace) ] ]
          IN  Returned(HandlersHandleRightSizing(EmptyClient, opts, state, Fn, Fv))
    /\ UNCHANGED driven

NextBoth == CallHandleRightSizing

SpecBoth == InitBoth /\ [][NextBoth]_vars

-----------------------------------------------------------------------------

(* Properties of repeated reconciles and of the entry points *)

\* the records of comp that a teardown is to remove: the addon, its template, and the
\* placement in each namespace the component was bound to since the attempts started
TeardownKeys(comp) ==
    { TemplateKey(comp), AddonKey(comp) }
        \cup { PlacementKey(comp, ns) : ns \in { call.start.state.Namespace, Resolved } }
TornDown ==
    /\ call.fn = "HandleComponentRightSizing"
    /\ \A key \in TeardownKeys(call.comp) : store[key] = NotFound

\* C37: when the component stays desired disabled, the reconcile is invoked again and again
\* and an attempt without a failing delete eventually comes, the addon, the template and the
\* placement of the component are eventually absent from every namespace it was bound to
C37_TeardownEventuallyCompletes == <>TornDown

\* the store operations of the last call of handlers.HandleRightSizing
StoreOpIndices == { i \in 1..Len(call.trace) : IsStoreOp(call.trace[i]) }
NamespaceWrote ==
    \E k \in ComponentKeys(ComponentTypeNamespace) : call.namespace.store[k] # call.pre.store[k]

\* C38: handlers.HandleRightSizing reconciles the namespace component, then the virtualization
\* component: every store operation on a namespace record comes before every one on a
\* virtualization record; when the namespace reconcile fails its error is returned and the
\* state and the records of the virtualization component are as before the call, no operation
\* on them having been issued; when it succeeds and the virtualization reconcile fails, the
\* state and the records of the namespace component are as the namespace reconcile left them
C38_NamespaceThenVirtualization ==
    call.fn = "HandleRightSizing" =>
        /\ \A i \in StoreOpIndices :
              IF i <= call.namespace.ops
              THEN call.trace[i].key \in ComponentKeys(ComponentTypeNamespace)
              ELSE call.trace[i].key \in ComponentKeys(ComponentTypeVirtualization)
        /\ call.namespace.err =>
              /\ call.err = NamespaceFailed
              /\ Len(call.trace) = call.namespace.ops
              /\ state[ComponentTypeVirtualization] = call.pre.state[ComponentTypeVirtualization]
              /\ \A k \in ComponentKeys(ComponentTypeVirtualization) : store[k] = call.pre.store[k]
        /\ ~call.namespace.err =>
              /\ call.err \in { "", VirtualizationFailed }
              /\ state[ComponentTypeNamespace] = call.namespace.state
              /\ \A k \in ComponentKeys(ComponentTypeNamespace) : store[k] = call.namespace.store[k]

\* the namespace reconcile changed records and the virtualization reconcile then failed
C38_Witness ==
    /\ call.fn = "HandleRightSizing"
    /\ call.err = VirtualizationFailed
    /\ NamespaceWrote
    /\ Len(call.trace) > call.namespace.ops

\* the places of HandleComponentRightSizing and of what it calls that issue a store operation
\* or invoke the callback
CallSites(comp) ==
    AddonDeleteSites \cup ConfigMapDeleteSites \cup AbortSites(comp)
        \cup { Site("ApplyChangesFunc", "Call", 0) }

\* C39: a reconcile has no internal retry: every entry of its trace comes from a place of the
\* code that issues one operation, no place issues its operation twice (so the number of store
\* calls is at most the number of places), the apply callback is invoked at most once, and it
\* is invoked exactly once if and only if the component type is known, the component is
\* desired enabled and the ensure, fetch and decode steps all succeeded; it is never invoked
\* when the component is desired disabled
C39_NoInternalRetry ==
    call.fn = "HandleComponentRightSizing" =>
        /\ { call.trace[i].site : i \in 1..Len(call.trace) } \subseteq CallSites(call.comp)
        /\ Cardinality({ call.trace[i].site : i \in 1..Len(call.trace) }) = Len(call.trace)
        /\ Cardinality(CallbackCalls) <= 1
        /\ Cardinality(CallbackCalls) = 1
              <=> (call.ctype \in Components /\ DesiredEnabled /\ ConfigStepsSucceeded)
        /\ ~DesiredEnabled => CallbackCalls = {}

\* a rebinding reconcile that went through every step: cleanup, ensure, fetch, one call of the
\* callback and all the writes of the apply
C39_Witness ==
    /\ Reconciled /\ DesiredEnabled /\ IsRebind
    /\ ~call.err /\ ErrorIndices = {}
    /\ Cardinality(CallbackCalls) = 1
    /\ IndicesOf(CleanupFns) # {}
    /\ IndicesOf({ "createOrUpdateDashboardFromFile" }) # {}

\* the last call is the reconcile that followed CleanupAllRightSizingResources, and no store
\* operation failed in the cleanup or in the reconcile
AfterCleanupAll == call.fn = "HandleComponentRightSizing" /\ "cleanup" \in DOMAIN call
CleanupAllThenEnable ==
    /\ AfterCleanupAll /\ DesiredEnabled
    /\ \A i \in 1..Len(call.cleanup.trace) : call.cleanup.trace[i].res # "error"
    /\ ErrorIndices = {}

\* the records CleanupAllRightSizingResources is to delete for comp bound to namespace, and
\* the dependent records an enabled reconcile writes for comp bound to namespace
RecordsIn(comp, namespace) ==
    { ConfigMapKey(comp), TemplateKey(comp), AddonKey(comp), PlacementKey(comp, namespace) }
        \cup DashboardKeys(comp)
CreatedKeys ==
    { call.trace[i].key : i \in { j \in 1..Len(call.trace) :
                                     call.trace[j].op = "Create" /\ call.trace[j].res = "ok" } }

\* C40: CleanupAllRightSizingResources leaves no configuration record and no dependent record
\* of the component in its recorded namespace and leaves its ComponentState as it was; the
\* reconcile that follows with the component desired enabled then succeeds, creates the
\* configuration record with the default content and creates every dependent record in the
\* resolved binding, whether state.Enabled was true or false when it started
C40_EnableAfterCleanupAllRecreates ==
    CleanupAllThenEnable =>
        /\ call.pre.state = call.cleanup.pre.state
        /\ \A key \in RecordsIn(call.comp, call.pre.state.Namespace) : call.pre.store[key] = NotFound
        /\ ~call.err
        /\ store[ConfigMapKey(call.comp)] = DefaultConfigMap
        /\ RecordsIn(call.comp, Resolved) \subseteq CreatedKeys
        /\ \A key \in RecordsIn(call.comp, Resolved) : store[key] # NotFound
        /\ state[call.comp] = ComponentState(Resolved, TRUE)

\* the cleanup removed the records of an enabled component, state.Enabled stayed true, and the
\* reconcile that followed recreated them
C40_Witness ==
    /\ CleanupAllThenEnable
    /\ call.pre.state.Enabled
    /\ \E key \in RecordsIn(call.comp, call.pre.state.Namespace) : call.cleanup.pre.store[key] # NotFound
    /\ RecordsIn(call.comp, Resolved) \subseteq CreatedKeys

====
